---------------------------- MODULE Spec2Model ----------------------------
(***************************************************************************)
(* A model of the property-inspection core of souhrudhJ/Hackathon-1:       *)
(*   - analyzer.py : analyze_image (fallback chain, retries, backoff),     *)
(*                   analyze_frames (batch loop, progress callback),       *)
(*                   _parse_response (fence stripping, JSON decoding,      *)
(*                   defect normalisation).                                *)
(* Texts (oracle responses, failure messages) are strings handled          *)
(* character by character; JSON values are tagged records [t, v].          *)
(***************************************************************************)
EXTENDS Integers, Sequences, FiniteSets, TLC

(***************************************************************************)
(* Strings                                                                 *)
(***************************************************************************)
\* s[i-1:i] for a 1-based i: the character at i, "" outside the string
Ch(s, i) == IF i >= 1 /\ i <= Len(s) THEN SubSeq(s, i, i) ELSE ""

Min(a, b) == IF a <= b THEN a ELSE b

\* s[:n]
Take(s, n) == SubSeq(s, 1, Min(n, Len(s)))

\* s[i-1:] for a 1-based i
From(s, i) == SubSeq(s, i, Len(s))

StartsWith(s, p) == Len(p) <= Len(s) /\ SubSeq(s, 1, Len(p)) = p

EndsWith(s, p) == Len(p) <= Len(s) /\ SubSeq(s, Len(s) - Len(p) + 1, Len(s)) = p

\* p in s
Contains(s, p) ==
    \E i \in 1..(Len(s) - Len(p) + 1) : SubSeq(s, i, i + Len(p) - 1) = p

RECURSIVE Rep(_, _)
Rep(s, n) ==
    IF n <= 0 THEN ""
    ELSE IF n % 2 = 0 THEN LET h == Rep(s, n \div 2) IN h \o h
    ELSE s \o Rep(s, n - 1)

\* The characters str.strip() and the regex class \s remove, of the alphabet
\* the modelled texts are written in.
WS == {" ", "\n", "\t", "\r"}

RECURSIVE LStrip(_)
LStrip(s) == IF Len(s) > 0 /\ Ch(s, 1) \in WS THEN LStrip(Tail(s)) ELSE s

RECURSIVE RStrip(_)
RStrip(s) ==
    IF Len(s) > 0 /\ Ch(s, Len(s)) \in WS
    THEN RStrip(SubSeq(s, 1, Len(s) - 1))
    ELSE s

Strip(s) == RStrip(LStrip(s))

UpperCase == <<"A", "B", "C", "D", "E", "F", "G", "H", "I", "J", "K", "L", "M",
               "N", "O", "P", "Q", "R", "S", "T", "U", "V", "W", "X", "Y", "Z">>
LowerCase == <<"a", "b", "c", "d", "e", "f", "g", "h", "i", "j", "k", "l", "m",
               "n", "o", "p", "q", "r", "s", "t", "u", "v", "w", "x", "y", "z">>

LowerCh(c) ==
    IF \E k \in 1..26 : UpperCase[k] = c
    THEN LowerCase[CHOOSE k \in 1..26 : UpperCase[k] = c]
    ELSE c

RECURSIVE Lower(_)
Lower(s) ==
    IF Len(s) <= 1 THEN LowerCh(s)
    ELSE Lower(SubSeq(s, 1, Len(s) \div 2)) \o Lower(SubSeq(s, Len(s) \div 2 + 1, Len(s)))

(***************************************************************************)
(* JSON values: [t |-> tag, v |-> payload].                                *)
(*   "dict"  v: sequence of [k |-> key string, v |-> value], keys distinct *)
(*   "list"  v: sequence of values                                         *)
(*   "str"   v: the decoded string                                         *)
(*   "int", "float", "bool" v: the lexeme;  "NoneType" v: ""               *)
(* The tags are the Python type names of the decoded values.               *)
(***************************************************************************)
JStr(s)   == [t |-> "str", v |-> s]
JInt(s)   == [t |-> "int", v |-> s]
JFloat(s) == [t |-> "float", v |-> s]
JBool(s)  == [t |-> "bool", v |-> s]
JNone     == [t |-> "NoneType", v |-> ""]
JList(q)  == [t |-> "list", v |-> q]
JDict(q)  == [t |-> "dict", v |-> q]

HasKey(pairs, key) == \E i \in 1..Len(pairs) : pairs[i].k = key

KeyIndex(pairs, key) == CHOOSE i \in 1..Len(pairs) : pairs[i].k = key

\* d.get(key, default) on the pairs of a dict
DictGet(pairs, key, default) ==
    IF HasKey(pairs, key) THEN pairs[KeyIndex(pairs, key)].v ELSE default

\* d[key] = val: an existing key keeps its place, a new key goes last
DictSet(pairs, key, val) ==
    IF HasKey(pairs, key)
    THEN [pairs EXCEPT ![KeyIndex(pairs, key)] = [k |-> key, v |-> val]]
    ELSE Append(pairs, [k |-> key, v |-> val])

(***************************************************************************)
(* json.loads: the strict decoder of the standard library, on the          *)
(* alphabet of the modelled texts (no \u escapes).  A scan returns         *)
(* [ok, val, pos]: pos is the index after the value.                       *)
(***************************************************************************)
JsonWS == {" ", "\t", "\n", "\r"}

Digits == {"0", "1", "2", "3", "4", "5", "6", "7", "8", "9"}

ScanFail == [ok |-> FALSE, val |-> JNone, pos |-> 0]

ScanOk(val, pos) == [ok |-> TRUE, val |-> val, pos |-> pos]

RECURSIVE SkipWs(_, _)
SkipWs(s, i) == IF Ch(s, i) \in JsonWS THEN SkipWs(s, i + 1) ELSE i

RECURSIVE ScanDigits(_, _)
ScanDigits(s, i) == IF Ch(s, i) \in Digits THEN ScanDigits(s, i + 1) ELSE i

\* json.scanner NUMBER_RE matched at i: an optional minus sign, 0 or a digit
\* run with no leading 0, an optional fraction, an optional exponent.
\* NumberInt: the index after the integer part that starts at j, 0 for none
NumberInt(s, j) ==
    IF Ch(s, j) = "0" THEN j + 1
    ELSE IF Ch(s, j) \in Digits THEN ScanDigits(s, j + 1)
    ELSE 0

\* the index after the fraction, if one starts at k
NumberFrac(s, k) ==
    IF Ch(s, k) = "." /\ Ch(s, k + 1) \in Digits THEN ScanDigits(s, k + 1) ELSE k

\* the index after the exponent, if one starts at k
NumberExp(s, k) ==
    LET d == IF Ch(s, k + 1) \in {"-", "+"} THEN k + 2 ELSE k + 1
    IN  IF Ch(s, k) \in {"e", "E"} /\ Ch(s, d) \in Digits
        THEN ScanDigits(s, d) ELSE k

\* the number from i, its integer part ending before k and all of it before e
NumberValue(s, i, k, e) ==
    IF k = 0 THEN ScanFail
    ELSE IF e = k THEN ScanOk(JInt(SubSeq(s, i, k - 1)), k)
    ELSE ScanOk(JFloat(SubSeq(s, i, e - 1)), e)

NumberFrom(s, i, k) == NumberValue(s, i, k, NumberExp(s, NumberFrac(s, k)))

ScanNumber(s, i) ==
    NumberFrom(s, i, NumberInt(s, IF Ch(s, i) = "-" THEN i + 1 ELSE i))

Unescape(c) ==
    CASE c = "n" -> "\n"
      [] c = "t" -> "\t"
      [] c = "r" -> "\r"
      [] OTHER   -> c

\* py_scanstring from the character after the opening quote (strict mode:
\* a raw control character ends the decoding with an error)
RECURSIVE ScanString(_, _, _)
ScanString(s, i, acc) ==
    LET c == Ch(s, i)
    IN  IF c = "" THEN ScanFail
        ELSE IF c = "\"" THEN ScanOk(JStr(acc), i + 1)
        ELSE IF c = "\\"
             THEN IF Ch(s, i + 1) \in {"\"", "\\", "/", "n", "t", "r"}
                  THEN ScanString(s, i + 2, acc \o Unescape(Ch(s, i + 1)))
                  ELSE ScanFail
        ELSE IF c \in {"\n", "\t", "\r"} THEN ScanFail
        ELSE ScanString(s, i + 1, acc \o c)

RECURSIVE ScanOnce(_, _)
RECURSIVE ScanArray(_, _, _)
RECURSIVE ScanObject(_, _, _)

\* JSONArray: after the elements acc, j is at the "," or the "]"
ArraySep(s, acc, j) ==
    IF Ch(s, j) = "]" THEN ScanOk(JList(acc), j + 1)
    ELSE IF Ch(s, j) = "," THEN ScanArray(s, SkipWs(s, j + 1), acc)
    ELSE ScanFail

\* JSONArray: e is the scan of the element after the elements acc
ArrayElement(s, acc, e) ==
    IF ~e.ok THEN ScanFail
    ELSE ArraySep(s, Append(acc, e.val), SkipWs(s, e.pos))

\* JSONArray's loop: i is where the next element starts
ScanArray(s, i, acc) == ArrayElement(s, acc, ScanOnce(s, i))

\* JSONObject: after the pairs acc, j is at the "," or the "}"
ObjectSep(s, acc, j) ==
    IF Ch(s, j) = "}" THEN ScanOk(JDict(acc), j + 1)
    ELSE IF Ch(s, j) = "," THEN ScanObject(s, SkipWs(s, j + 1), acc)
    ELSE ScanFail

\* JSONObject: e is the scan of the value of key
ObjectValue(s, acc, key, e) ==
    IF ~e.ok THEN ScanFail
    ELSE ObjectSep(s, DictSet(acc, key, e.val), SkipWs(s, e.pos))

\* JSONObject: c is where the ":" after key must be
ObjectColon(s, acc, key, c) ==
    IF Ch(s, c) # ":" THEN ScanFail
    ELSE ObjectValue(s, acc, key, ScanOnce(s, SkipWs(s, c + 1)))

\* JSONObject: key is the scan of the key string
ObjectKey(s, acc, key) ==
    IF ~key.ok THEN ScanFail
    ELSE ObjectColon(s, acc, key.val.v, SkipWs(s, key.pos))

\* JSONObject's loop: i is where the next key's opening quote must be
ScanObject(s, i, acc) ==
    IF Ch(s, i) # "\"" THEN ScanFail
    ELSE ObjectKey(s, acc, ScanString(s, i + 1, ""))

\* JSONObject and JSONArray: j is the first character inside the brackets
ObjectOpen(s, j) ==
    IF Ch(s, j) = "}" THEN ScanOk(JDict(<<>>), j + 1) ELSE ScanObject(s, j, <<>>)

ArrayOpen(s, j) ==
    IF Ch(s, j) = "]" THEN ScanOk(JList(<<>>), j + 1) ELSE ScanArray(s, j, <<>>)

\* _scan_once past strings, objects and arrays: the constants and the
\* number num that NUMBER_RE matches at i, in the order of the source
ScanLiteral(s, i, num) ==
    IF SubSeq(s, i, Min(i + 3, Len(s))) = "null" THEN ScanOk(JNone, i + 4)
    ELSE IF SubSeq(s, i, Min(i + 3, Len(s))) = "true" THEN ScanOk(JBool("true"), i + 4)
    ELSE IF SubSeq(s, i, Min(i + 4, Len(s))) = "false" THEN ScanOk(JBool("false"), i + 5)
    ELSE IF num.ok THEN num
    ELSE IF SubSeq(s, i, Min(i + 2, Len(s))) = "NaN" THEN ScanOk(JFloat("NaN"), i + 3)
    ELSE IF SubSeq(s, i, Min(i + 7, Len(s))) = "Infinity"
         THEN ScanOk(JFloat("Infinity"), i + 8)
    ELSE IF SubSeq(s, i, Min(i + 8, Len(s))) = "-Infinity"
         THEN ScanOk(JFloat("-Infinity"), i + 9)
    ELSE ScanFail

\* _scan_once at i, where the character c is
ScanAt(s, i, c) ==
    IF c = "" THEN ScanFail
    ELSE IF c = "\"" THEN ScanString(s, i + 1, "")
    ELSE IF c = "{" THEN ObjectOpen(s, SkipWs(s, i + 1))
    ELSE IF c = "[" THEN ArrayOpen(s, SkipWs(s, i + 1))
    ELSE ScanLiteral(s, i, ScanNumber(s, i))

\* scanner.py_make_scanner._scan_once
ScanOnce(s, i) == ScanAt(s, i, Ch(s, i))

\* JSONDecoder.decode: nothing but white space may follow the value e
WholeText(s, e) ==
    IF e.ok /\ SkipWs(s, e.pos) = Len(s) + 1 THEN e ELSE ScanFail

\* json.loads(s): [ok |-> FALSE] stands for JSONDecodeError
JsonLoads(s) == WholeText(s, ScanOnce(s, SkipWs(s, 1)))

(***************************************************************************)
(* config.py                                                               *)
(***************************************************************************)
DEFECT_TYPES ==
    {"structural_crack", "wall_crack", "ceiling_crack", "floor_damage",
     "water_damage", "mold", "peeling_paint", "electrical_hazard",
     "exposed_wiring", "broken_fixture", "plumbing_issue", "window_damage",
     "staircase_damage", "other"}

Severities == {"critical", "high", "medium", "low"}

(***************************************************************************)
(* analyzer.py: _parse_response                                            *)
(* A call ends [raised |-> FALSE, val |-> the returned dict] or            *)
(* [raised |-> TRUE, exc |-> str(e)] for an exception that leaves it.      *)
(* A returned dict is [defects, room_condition, summary, has_error,        *)
(* error]: has_error tells whether the key "error" is present.             *)
(***************************************************************************)
Returned(val) == [raised |-> FALSE, exc |-> "", val |-> val]

Analysis(defects, room_condition, summary) ==
    [defects |-> defects, room_condition |-> room_condition,
     summary |-> summary, has_error |-> FALSE, error |-> ""]

AnalysisWithError(summary, err) ==
    [defects |-> JList(<<>>), room_condition |-> JStr("unknown"),
     summary |-> JStr(summary), has_error |-> TRUE, error |-> err]

NoAnalysis == Analysis(JNone, JNone, JNone)

Raised(msg) == [raised |-> TRUE, exc |-> msg, val |-> NoAnalysis]

AttributeError(v, attr) ==
    Raised("'" \o v.t \o "' object has no attribute '" \o attr \o "'")

NotIterable(v) == Raised("'" \o v.t \o "' object is not iterable")

Unhashable(v) == Raised("unhashable type: '" \o v.t \o "'")

\* The markdown code fence, three backquotes.  A TLA+ string cannot hold a
\* backquote: the modelled texts write the character ~ for it, and use ~ for
\* nothing else.
Fence == "~~~"

\* line 169: an opening fence, an optional "json" after it and the white space
\* that follows are removed from the start of s
StripOpeningFence(s) ==
    IF ~StartsWith(s, Fence) THEN s
    ELSE LET rest == From(s, 4)
         IN  LStrip(IF StartsWith(rest, "json") THEN From(rest, 5) ELSE rest)

\* line 170: a closing fence at the end of s (s ends in no line break) is
\* removed with the white space before it
StripClosingFence(s) ==
    IF ~EndsWith(s, Fence) THEN s
    ELSE RStrip(SubSeq(s, 1, Len(s) - 3))

\* lines 168-171
Cleaned(text) == Strip(StripClosingFence(StripOpeningFence(Strip(text))))

\* line 177: the greedy search for an opening brace, anything, a closing
\* brace: [found, span], span running from the first { to the last }
SearchObject(s) ==
    LET opens  == {i \in 1..Len(s) : Ch(s, i) = "{"}
        first  == CHOOSE i \in opens : \A j \in opens : i <= j
        closes == {i \in 1..Len(s) : Ch(s, i) = "}" /\ i > first}
        last   == CHOOSE i \in closes : \A j \in closes : j <= i
    IN  IF opens = {} \/ closes = {} THEN [found |-> FALSE, span |-> ""]
        ELSE [found |-> TRUE, span |-> SubSeq(s, first, last)]

\* lines 182-186 and 188-192
CouldNotParse(text) ==
    Analysis(JList(<<>>), JStr("unknown"),
             JStr("Could not parse AI response. Raw: " \o Take(text, 300)))

\* lines 177-192: the strict decoding has failed, match is the search's result
DecodeSpan(match) == IF match.found THEN JsonLoads(match.span) ELSE ScanFail

\* the span is decoded first and the whole text only when the span fails
DecodeStrict_SpanFirst(cleaned, strict) ==
    IF DecodeSpan(SearchObject(cleaned)).ok
    THEN DecodeSpan(SearchObject(cleaned)) ELSE strict

\* lines 173-177: strict is what json.loads made of cleaned
DecodeStrict(cleaned, strict) ==
    IF strict.ok THEN strict ELSE DecodeSpan(SearchObject(cleaned))

DecodeCleaned(cleaned) == DecodeStrict(cleaned, JsonLoads(cleaned))

\* lines 168-192: [ok |-> TRUE, val |-> data], or ok FALSE for the early return
Decode(text) == DecodeCleaned(Cleaned(text))

FullImageBox == JList(<<JInt("0"), JInt("0"), JInt("1000"), JInt("1000")>>)

\* lines 198-199, on the pairs of d
NormalizeType(d) ==
    LET ty == DictGet(d, "type", JNone)
    IN  IF ty.t = "str" /\ ty.v \in DEFECT_TYPES THEN d
        ELSE DictSet(d, "type", JStr("other"))

\* lines 200-201
NormalizeSeverity(d) ==
    LET sv == DictGet(d, "severity", JNone)
    IN  IF sv.t = "str" /\ sv.v \in Severities THEN d
        ELSE DictSet(d, "severity", JStr("medium"))

\* lines 202-203
NormalizeBbox(d) ==
    LET bb == DictGet(d, "bbox", JNone)
    IN  IF HasKey(d, "bbox") /\ bb.t = "list" /\ Len(bb.v) = 4 THEN d
        ELSE DictSet(d, "bbox", FullImageBox)

\* the body of the loop of line 197 for one d
NormalizeDefect(d) ==
    IF d.t # "dict" THEN AttributeError(d, "get")
    ELSE IF DictGet(d.v, "type", JNone).t \in {"list", "dict"}
         THEN Unhashable(DictGet(d.v, "type", JNone))
    ELSE Returned(JDict(NormalizeBbox(NormalizeSeverity(NormalizeType(d.v)))))

RECURSIVE NormalizeItems(_, _)

\* r is how the body of the loop ended for the item before rest
NormalizeRest(rest, done, r) ==
    IF r.raised THEN r ELSE NormalizeItems(rest, Append(done, r.val))

\* the loop of lines 197-203 over the items the iteration yields
NormalizeItems(items, done) ==
    IF items = <<>> THEN Returned(done)
    ELSE NormalizeRest(Tail(items), done, NormalizeDefect(Head(items)))

\* what "for d in defects" iterates over: the items of a list, the keys of
\* a dict, the characters of a str
Items(v) ==
    CASE v.t = "list" -> v.v
      [] v.t = "dict" -> [i \in 1..Len(v.v) |-> JStr(v.v[i].k)]
      [] v.t = "str"  -> [i \in 1..Len(v.v) |-> JStr(Ch(v.v, i))]
      [] OTHER        -> <<>>

\* lines 205-209, after the loop over defects ended as loop says
NormalizeResult(data, defects, loop) ==
    IF loop.raised THEN loop
    ELSE Returned(Analysis(
             IF defects.t = "list" THEN JList(loop.val) ELSE defects,
             DictGet(data, "room_condition", JStr("unknown")),
             DictGet(data, "summary", JStr("No summary available."))))

\* lines 196-209, data being the pairs of the decoded dict
NormalizeDefects(data, defects) ==
    IF defects.t \notin {"list", "dict", "str"} THEN NotIterable(defects)
    ELSE NormalizeResult(data, defects, NormalizeItems(Items(defects), <<>>))

\* lines 194-209
Normalize(data) ==
    IF data.t # "dict" THEN AttributeError(data, "get")
    ELSE NormalizeDefects(data.v, DictGet(data.v, "defects", JList(<<>>)))

\* lines 173-209, data being what the decoding gave
ParseDecoded(text, data) ==
    IF data.ok THEN Normalize(data.val) ELSE Returned(CouldNotParse(text))

_parse_response(text) == ParseDecoded(text, Decode(text))

(***************************************************************************)
(* analyzer.py: analyze_image and analyze_frames                           *)
(***************************************************************************)
_MODEL_FALLBACK_CHAIN ==
    <<"gemini-2.5-flash", "gemini-2.0-flash", "gemini-2.0-flash-lite",
      "gemini-2.5-pro">>

MAX_RETRIES == 2

RETRY_BASE_DELAY == 12

\* the chain with the preferred model put first and not removed
models_to_try_NoDedup(name) == <<name>> \o _MODEL_FALLBACK_CHAIN

\* line 93
models_to_try(name) ==
    <<name>> \o SelectSeq(_MODEL_FALLBACK_CHAIN, LAMBDA x : x # name)

\* the marks of a rate limit are looked for first
Classify_RateLimitFirst(msg) ==
    LET err_str == Lower(msg)
    IN  IF Contains(err_str, "429") \/ Contains(err_str, "quota")
           \/ Contains(err_str, "resource")
        THEN "RateLimited"
        ELSE IF Contains(err_str, "404") \/ Contains(err_str, "not found")
        THEN "NotFound"
        ELSE "Other"

\* lines 111-125: the kind of a failure, from the text of str(e)
Classify(msg) ==
    LET err_str == Lower(msg)
    IN  IF Contains(err_str, "404") \/ Contains(err_str, "not found")
        THEN "NotFound"
        ELSE IF Contains(err_str, "429") \/ Contains(err_str, "quota")
                \/ Contains(err_str, "resource")
        THEN "RateLimited"
        ELSE "Other"

\* an Other failure leaves the retry loop for the next model
Decide_OtherBreaks(kind, att) ==
    CASE kind = "RateLimited" -> IF att < MAX_RETRIES - 1 THEN "sleep" ELSE "break"
      [] OTHER                -> "break"

\* an Other failure is retried as a RateLimited one is
Decide_OtherRetries(kind, att) ==
    CASE kind = "NotFound" -> "break"
      [] OTHER             -> IF att < MAX_RETRIES - 1 THEN "sleep" ELSE "break"

\* a NotFound failure is retried as a RateLimited one is
Decide_NotFoundRetries(kind, att) ==
    CASE kind \in {"NotFound", "RateLimited"} ->
             IF att < MAX_RETRIES - 1 THEN "sleep" ELSE "break"
      [] OTHER -> "raise"

\* a RateLimited failure is retried after the last attempt too
Decide_RetriesAfterLast(kind, att) ==
    CASE kind = "NotFound"    -> "break"
      [] kind = "RateLimited" -> IF att < MAX_RETRIES THEN "sleep" ELSE "break"
      [] OTHER                -> "raise"

\* lines 112-125: what the except clause does on a failure of this kind at
\* this attempt: leave the retry loop, sleep and go round again, or re-raise
Decide(kind, att) ==
    CASE kind = "NotFound"    -> "break"
      [] kind = "RateLimited" -> IF att < MAX_RETRIES - 1 THEN "sleep" ELSE "break"
      [] OTHER                -> "raise"

\* the delay computed from the attempt number as it is
Wait_ZeroBased(att) == RETRY_BASE_DELAY * att

\* line 117
Wait(att) == RETRY_BASE_DELAY * (att + 1)

\* the summary keeps 300 characters of the error
Exhausted_Keeps300(err) ==
    AnalysisWithError(
        "API error after retries: " \o Take(err, 300) \o ". "
        \o "Check your API key quota at https://ai.dev/rate-limit - "
        \o "you may need to wait a minute or use a different key.",
        err)

\* lines 128-135
Exhausted(err) ==
    AnalysisWithError(
        "API error after retries: " \o Take(err, 200) \o ". "
        \o "Check your API key quota at https://ai.dev/rate-limit - "
        \o "you may need to wait a minute or use a different key.",
        err)

\* lines 153-158
AnalysisFailed(err) == AnalysisWithError("Analysis failed: " \o err, err)

\* the result of a frame that raised carries no error key
FrameResult_NoErrorKey(o) ==
    IF o.raised
    THEN Analysis(JList(<<>>), JStr("unknown"), JStr("Analysis failed: " \o o.exc))
    ELSE o.val

\* lines 150-158: the result analyze_frames keeps for one frame
FrameResult(o) == IF o.raised THEN AnalysisFailed(o.exc) ELSE o.val

(***************************************************************************)
(* Inputs                                                                  *)
(***************************************************************************)
\* The most frames a batch has.
MaxFrames == 2

\* model_name: the default of line 86 (second in the chain),
\* config.GEMINI_MODEL (the head of the chain), and a model outside the chain
ModelNames == {"gemini-2.0-flash", "gemini-2.5-flash", "tuned-model"}

\* The characters of a failure text beyond the 200 the summary keeps.
LongTail == 30

LongFailure == "429 RESOURCE_EXHAUSTED " \o Rep("x", 200 + LongTail)

\* str(e) of the failures of an oracle call
Failures ==
    {"Model Not Found", "404 while checking quota", "Quota exceeded",
     LongFailure, "Connection reset by peer"}

GoodResponse ==
    "{\"defects\": [{\"type\": \"mold\", \"severity\": \"high\", "
    \o "\"description\": \"Mold\", \"bbox\": [1, 2, 3, 4]}, "
    \o "{\"type\": \"rust\", \"severity\": \"severe\"}], "
    \o "\"room_condition\": \"poor\", \"summary\": \"Damp.\"}"

\* response.text of the oracle calls that succeed
Responses ==
    {"~~~json\n" \o GoodResponse \o "\n~~~", "I see no image.", "[]"}

\* _parse_response and Classify on the texts above, computed once
Parsed == [text \in Responses |-> _parse_response(text)]

\* what the texts of failures are made of: marks of a model that is not
\* found, marks of a rate limit, and words that are neither, in small and
\* capital letters
NotFoundMarks == {"404", "not found", "Not Found", "NOT FOUND"}

RateLimitMarks == {"429", "quota", "Quota", "RESOURCE_EXHAUSTED", "misquotation"}

NoMarks == {"timeout", "notfound", "4 0 4", "HTTP 500"}

\* str(e) of a failure that holds the words a and b
FailureOf(a, b) == "Error " \o a \o ": " \o b

MarkedFailures ==
    {FailureOf(a, b) : a, b \in NotFoundMarks \cup RateLimitMarks \cup NoMarks}

KindOf ==
    [msg \in Failures \cup {Parsed[text].exc : text \in Responses} \cup MarkedFailures
        |-> Classify(msg)]

\* The texts _parse_response is applied to: each payload bare, fenced, in
\* prose, and padded with white space.
Payloads ==
    {GoodResponse, "{}", "{\"defects\": []}", "{\"defects\": {}}",
     "[]", "[1, 2]", "42", "\"ok\"", "null",
     "{\"defects\": 5}", "{\"defects\": null}", "{\"defects\": \"ab\"}",
     "{\"defects\": {\"a\": 1}}", "{\"defects\": [3]}", "{\"defects\": [\"x\"]}",
     "{\"defects\": [{\"type\": [\"mold\"]}]}",
     "{\"defects\": [{\"type\": \"mold\", \"bbox\": [\"a\", \"b\", \"c\", \"d\"]}]}",
     "{\"defects\": [{\"severity\": \"low\", \"bbox\": [1, 2, 3]}]}",
     "{\"defects\": [{\"type\": 7, \"severity\": null, \"bbox\": \"all\"}]}",
     "[{\"defects\": []}]",
     "I see no image.", "{broken", Rep("no ", 100 + LongTail)}

Wrapped(s) ==
    {s, "~~~json\n" \o s \o "\n~~~", "~~~\n" \o s \o "~~~",
     "Here is the analysis: " \o s \o " Done.", "  \n" \o s \o "\n "}

ParseTexts == UNION {Wrapped(s) : s \in Payloads}


(***************************************************************************)
(* Python floats: the arithmetic of risk_calculator.py                     *)
(*                                                                         *)
(* A float is an IEEE 754 double.  None here is negative, infinite, NaN or *)
(* subnormal, so a float is [m, e] and stands for m * 2^e, with m a        *)
(* natural number of exactly MantissaBits bits, or 0.  m does not fit an   *)
(* integer of the model checker: it is a sequence of limbs, least          *)
(* significant first, each in 0..LimbBase-1, the last one not 0.           *)
(***************************************************************************)
LimbBits == 13

LimbBase == 2^LimbBits

MantissaBits == 53

RECURSIVE BigOf(_)
\* the limbs of the natural number n
BigOf(n) == IF n = 0 THEN <<>> ELSE <<n % LimbBase>> \o BigOf(n \div LimbBase)

RECURSIVE SmallOf(_)
\* the natural number of the limbs a
SmallOf(a) == IF a = <<>> THEN 0 ELSE Head(a) + LimbBase * SmallOf(Tail(a))

RECURSIVE BigAdd(_, _, _)
\* a + b + carry
BigAdd(a, b, carry) ==
    IF a = <<>> THEN (IF carry = 0 THEN b ELSE BigAdd(<<carry>>, b, 0))
    ELSE IF b = <<>> THEN (IF carry = 0 THEN a ELSE BigAdd(a, <<carry>>, 0))
    ELSE <<(Head(a) + Head(b) + carry) % LimbBase>>
         \o BigAdd(Tail(a), Tail(b), (Head(a) + Head(b) + carry) \div LimbBase)

RECURSIVE BigMulSmall(_, _, _)
\* a * k + carry, for 0 < k < 2^17
BigMulSmall(a, k, carry) ==
    IF a = <<>> THEN BigOf(carry)
    ELSE <<(Head(a) * k + carry) % LimbBase>>
         \o BigMulSmall(Tail(a), k, (Head(a) * k + carry) \div LimbBase)

\* a * LimbBase
BigShiftLimb(a) == IF a = <<>> THEN a ELSE <<0>> \o a

RECURSIVE BigMul(_, _)
\* a * b
BigMul(a, b) ==
    IF a = <<>> \/ b = <<>> THEN <<>>
    ELSE IF Head(b) = 0 THEN BigShiftLimb(BigMul(a, Tail(b)))
    ELSE BigAdd(BigMulSmall(a, Head(b), 0), BigShiftLimb(BigMul(a, Tail(b))), 0)

RECURSIVE BigDivFrom(_, _, _, _, _)
\* long division of a by k, 0 < k < 2^17, at limb q of a: rem is what the
\* limbs above q left, quot the limbs of the quotient they gave
BigDivFrom(a, k, q, rem, quot) ==
    IF q = 0 THEN [q |-> quot, r |-> rem]
    ELSE BigDivFrom(a, k, q - 1, (rem * LimbBase + a[q]) % k,
                    IF quot = <<>> /\ (rem * LimbBase + a[q]) \div k = 0 THEN <<>>
                    ELSE <<(rem * LimbBase + a[q]) \div k>> \o quot)

\* [q |-> a div k, r |-> a mod k]
BigDivSmall(a, k) == BigDivFrom(a, k, Len(a), 0, <<>>)

RECURSIVE BitLenSmall(_)
BitLenSmall(n) == IF n = 0 THEN 0 ELSE 1 + BitLenSmall(n \div 2)

\* the number of bits of a
BitLen(a) ==
    IF a = <<>> THEN 0 ELSE LimbBits * (Len(a) - 1) + BitLenSmall(a[Len(a)])

\* a * 2^s
ShiftLeft(a, s) ==
    IF a = <<>> THEN a
    ELSE [q \in 1..(s \div LimbBits) |-> 0] \o BigMulSmall(a, 2^(s % LimbBits), 0)

\* a div 2^s
ShiftRight(a, s) ==
    IF Len(a) <= s \div LimbBits THEN <<>>
    ELSE BigDivSmall(SubSeq(a, s \div LimbBits + 1, Len(a)), 2^(s % LimbBits)).q

\* bit j of a, bit 0 being the lowest
BitAt(a, j) ==
    IF j \div LimbBits + 1 > Len(a) THEN 0
    ELSE (a[j \div LimbBits + 1] \div 2^(j % LimbBits)) % 2

\* the bits of a below bit j are all 0
ZeroBelow(a, j) == \A q \in 0..(j - 1) : BitAt(a, q) = 0

\* a / 2^s rounded to the nearest natural number, a tie to the even one
RoundShift(a, s) ==
    IF s = 0 THEN a
    ELSE IF BitAt(a, s - 1) = 1 /\ (BitAt(a, s) = 1 \/ ~ZeroBelow(a, s - 1))
         THEN BigAdd(ShiftRight(a, s), <<1>>, 0)
    ELSE ShiftRight(a, s)

RECURSIVE BigLess(_, _, _)
\* a < b for a and b of the same number q of limbs
BigLess(a, b, q) ==
    IF q = 0 THEN FALSE
    ELSE IF a[q] # b[q] THEN a[q] < b[q]
    ELSE BigLess(a, b, q - 1)

FloatZero == [m |-> <<>>, e |-> 0]

\* the rounding carried into a bit more than the mantissa has
FloatCarry(m, e) ==
    IF BitLen(m) > MantissaBits THEN [m |-> ShiftRight(m, 1), e |-> e + 1]
    ELSE [m |-> m, e |-> e]

\* the float nearest to a * 2^e, a having len bits
FloatOfBits(a, e, len) ==
    IF len = 0 THEN FloatZero
    ELSE IF len <= MantissaBits
         THEN [m |-> ShiftLeft(a, MantissaBits - len), e |-> e - (MantissaBits - len)]
    ELSE FloatCarry(RoundShift(a, len - MantissaBits), e + (len - MantissaBits))

\* round to nearest, ties to even: the float nearest to a * 2^e
FloatRound(a, e) == FloatOfBits(a, e, BitLen(a))

\* the float nearest to (2 * d.q + a fraction that is 0 exactly when d.r is) * 2^e
FloatOfQuotient(d, e) ==
    FloatRound(BigAdd(ShiftLeft(d.q, 1), IF d.r = 0 THEN <<>> ELSE <<1>>, 0), e)

\* float(n) for an int n >= 0
FloatOfInt(n) == FloatRound(BigOf(n), 0)

\* the float a decimal literal or a decimal string of value p / k stands for
FloatOfRatio(p, k) ==
    FloatOfQuotient(BigDivSmall(ShiftLeft(BigOf(p), 5 * LimbBits + MantissaBits), k),
                    0 - (5 * LimbBits + MantissaBits + 1))

\* x * y
FloatMul(x, y) == FloatRound(BigMul(x.m, y.m), x.e + y.e)

\* x + y
FloatAdd(x, y) ==
    IF x.m = <<>> THEN y
    ELSE IF y.m = <<>> THEN x
    ELSE FloatRound(BigAdd(ShiftLeft(x.m, x.e - Min(x.e, y.e)),
                           ShiftLeft(y.m, y.e - Min(x.e, y.e)), 0), Min(x.e, y.e))

\* x / n for an int n > 0
FloatDivInt(x, n) ==
    FloatOfQuotient(BigDivSmall(ShiftLeft(x.m, 5 * LimbBits), n), x.e - (5 * LimbBits + 1))

RECURSIVE BigTrim(_)
\* a without the limbs 0 at its high end
BigTrim(a) ==
    IF a # <<>> /\ a[Len(a)] = 0 THEN BigTrim(SubSeq(a, 1, Len(a) - 1)) ELSE a

RECURSIVE BigSub(_, _, _)

\* the limbs of a - b - borrow from the lowest of a on, d being that limb of
\* a less the one of b and the borrow
BigSubLimb(a, b, d) ==
    <<(d + LimbBase) % LimbBase>>
    \o BigSub(Tail(a), IF b = <<>> THEN b ELSE Tail(b), IF d < 0 THEN 1 ELSE 0)

\* a - b - borrow, for a >= b + borrow
BigSub(a, b, borrow) ==
    IF a = <<>> THEN <<>>
    ELSE BigSubLimb(a, b, Head(a) - (IF b = <<>> THEN 0 ELSE Head(b)) - borrow)

\* a >= b
BigGeq(a, b) == IF Len(a) # Len(b) THEN Len(a) > Len(b) ELSE ~BigLess(a, b, Len(a))

\* one bit of the long division by b: rem is twice what was left plus the
\* next bit of the dividend
BigDivBit(rem, b, quot) ==
    IF BigGeq(rem, b)
    THEN [rem |-> BigTrim(BigSub(rem, b, 0)), quot |-> BigMulSmall(quot, 2, 1)]
    ELSE [rem |-> rem, quot |-> BigMulSmall(quot, 2, 0)]

RECURSIVE BigDivBits(_, _, _)
\* the long division by b goes on for j bits 0 of the dividend; nothing
\* left, the bits of the quotient still to come are 0
BigDivBits(b, j, st) ==
    IF j = 0 THEN st
    ELSE IF st.rem = <<>> THEN [rem |-> <<>>, quot |-> ShiftLeft(st.quot, j)]
    ELSE BigDivBits(b, j - 1, BigDivBit(BigMulSmall(st.rem, 2, 0), b, st.quot))

\* the float nearest to (d.quot + d.rem / the divisor) * 2^(e + 1)
FloatOfDivision(d, e) ==
    FloatOfQuotient([q |-> d.quot, r |-> IF d.rem = <<>> THEN 0 ELSE 1], e)

\* x / y, for y > 0: the mantissa of x, less than twice the one of y, is
\* divided with MantissaBits + 2 bits after the point
FloatDiv(x, y) ==
    IF x.m = <<>> THEN FloatZero
    ELSE FloatOfDivision(BigDivBits(y.m, MantissaBits + 2, BigDivBit(x.m, y.m, <<>>)),
                         x.e - y.e - (MantissaBits + 3))

\* int(x) for a float x >= 0: the fraction is cut off
IntOfFloat(x) ==
    IF x.m = <<>> THEN 0
    ELSE IF x.e >= 0 THEN SmallOf(ShiftLeft(x.m, x.e))
    ELSE SmallOf(ShiftRight(x.m, 0 - x.e))

\* round(x) for a float x >= 0: the nearest integer, a tie to the even one
RoundOfFloat(x) ==
    IF x.m = <<>> THEN 0
    ELSE IF x.e >= 0 THEN SmallOf(ShiftLeft(x.m, x.e))
    ELSE SmallOf(RoundShift(x.m, 0 - x.e))

\* x < y
FloatLess(x, y) ==
    IF y.m = <<>> THEN FALSE
    ELSE IF x.m = <<>> THEN TRUE
    ELSE IF x.e # y.e THEN x.e < y.e
    ELSE BigLess(x.m, y.m, Len(x.m))

\* round(x, 1) in tenths: the integer nearest to 10 * x, a tie to the even one
RoundTenths(x) ==
    IF x.m = <<>> THEN 0 ELSE SmallOf(RoundShift(BigMulSmall(x.m, 10, 0), 0 - x.e))

(***************************************************************************)
(* config.py: the weights and the priority order                           *)
(***************************************************************************)
\* lines 17-32: "weight" of each defect type, in hundredths (0.95 is 95)
WeightHundredths ==
    [structural_crack |-> 95, wall_crack |-> 80, ceiling_crack |-> 85,
     floor_damage |-> 70, water_damage |-> 90, mold |-> 85,
     peeling_paint |-> 40, electrical_hazard |-> 100, exposed_wiring |-> 100,
     broken_fixture |-> 55, plumbing_issue |-> 75, window_damage |-> 50,
     staircase_damage |-> 80, other |-> 30]

\* line 34
PRIORITY_ORDER == [critical |-> 0, high |-> 1, medium |-> 2, low |-> 3]

(***************************************************************************)
(* risk_calculator.py: score_frame                                         *)
(***************************************************************************)
\* line 38: the multipliers 1.0, 0.75, 0.5, 0.25 and the default 0.5, in
\* hundredths
MultHundredths ==
    [critical |-> 100, high |-> 75, medium |-> 50, low |-> 25, default |-> 50]

\* line 35: the key of DEFECT_TYPES whose entry cfg is
CfgKey(dtype) ==
    IF dtype.t = "str" /\ dtype.v \in DEFECT_TYPES THEN dtype.v ELSE "other"

\* line 38: the key of the multiplier, "default" for the .get default
MultKey(severity) ==
    IF severity.t = "str" /\ severity.v \in Severities THEN severity.v ELSE "default"

\* line 39: cfg["weight"] * severity_mult * 25 for every weight and every
\* multiplier, computed once
Contributions ==
    [ty \in DEFECT_TYPES, sv \in DOMAIN MultHundredths |->
        FloatMul(FloatMul(FloatOfRatio(WeightHundredths[ty], 100),
                          FloatOfRatio(MultHundredths[sv], 100)),
                 FloatOfInt(25))]

score_contribution(dtype, severity) == Contributions[CfgKey(dtype), MultKey(severity)]

IsStr(v, s) == v.t = "str" /\ v.v = s

\* lines 40-47 for one defect; defect_counts is keyed by the text of dtype
ScoreDefect(acc, dtype, severity) ==
    [weighted_sum   |-> FloatAdd(acc.weighted_sum, score_contribution(dtype, severity)),
     critical_count |-> acc.critical_count + (IF IsStr(severity, "critical") THEN 1 ELSE 0),
     high_count     |-> acc.high_count + (IF IsStr(severity, "high") THEN 1 ELSE 0),
     defect_counts  |-> DictSet(acc.defect_counts, dtype.v,
                                DictGet(acc.defect_counts, dtype.v, 0) + 1)]

\* lines 33-35 and 38: what cannot be looked up raises
ScoreKeys(acc, dtype, severity) ==
    IF dtype.t \in {"list", "dict"} THEN Unhashable(dtype)
    ELSE IF severity.t \in {"list", "dict"} THEN Unhashable(severity)
    ELSE Returned(ScoreDefect(acc, dtype, severity))

RECURSIVE ScoreLoop(_, _)

\* r is how the body of the loop ended for the item before rest
ScoreRest(rest, r) == IF r.raised THEN r ELSE ScoreLoop(rest, r.val)

\* the loop of lines 32-47 over the items the iteration yields
ScoreLoop(items, acc) ==
    IF items = <<>> THEN Returned(acc)
    ELSE IF Head(items).t # "dict" THEN AttributeError(Head(items), "get")
    ELSE ScoreRest(Tail(items),
                   ScoreKeys(acc, DictGet(Head(items).v, "type", JStr("other")),
                             DictGet(Head(items).v, "severity", JStr("medium"))))

\* lines 27-30
ScoreStart ==
    [weighted_sum |-> FloatZero, critical_count |-> 0, high_count |-> 0,
     defect_counts |-> <<>>]

\* "not v" of line 18 is true
Falsy(v) ==
    CASE v.t = "NoneType" -> TRUE
      [] v.t \in {"list", "dict", "str"} -> Len(v.v) = 0
      [] v.t = "bool" -> v.v = "false"
      [] OTHER -> \A q \in 1..Len(v.v) : Ch(v.v, q) \notin (Digits \ {"0"})

\* the sum is not capped
Min100_NoCap(x) == x

\* line 50: min(100, weighted_sum)
Min100(x) == IF FloatLess(x, FloatOfInt(100)) THEN x ELSE FloatOfInt(100)

\* x >= n for a float x and an int n
AtLeast(x, n) == ~FloatLess(x, FloatOfInt(n))

\* round(x, 1): the float of the decimal string with one digit after the point
Round1(x) == FloatOfRatio(RoundTenths(x), 10)


\* lines 53-60
FrameLevel(raw_score, critical_count) ==
    IF AtLeast(raw_score, 70) \/ critical_count >= 2 THEN "critical"
    ELSE IF AtLeast(raw_score, 45) \/ critical_count >= 1 THEN "high"
    ELSE IF AtLeast(raw_score, 20) THEN "medium"
    ELSE "low"

\* lines 62-68
FrameScore(acc, raw_score) ==
    [score          |-> Round1(raw_score),
     risk_level     |-> FrameLevel(raw_score, acc.critical_count),
     critical_count |-> acc.critical_count,
     high_count     |-> acc.high_count,
     defect_counts  |-> acc.defect_counts]

\* a frame without defects is banded as any frame of score 0 is
SafeFrame_Low ==
    [score |-> FloatZero, risk_level |-> "low", critical_count |-> 0,
     high_count |-> 0, defect_counts |-> <<>>]

\* lines 19-25
SafeFrame ==
    [score |-> FloatZero, risk_level |-> "safe", critical_count |-> 0,
     high_count |-> 0, defect_counts |-> <<>>]

\* lines 49-68, after the loop ended as loop says
FrameAfterLoop(loop) ==
    IF loop.raised THEN loop
    ELSE Returned(FrameScore(loop.val, Min100(loop.val.weighted_sum)))

\* lines 17-68, defects being analysis.get("defects", [])
ScoreDefects(defects) ==
    IF Falsy(defects) THEN Returned(SafeFrame)
    ELSE IF defects.t \notin {"list", "dict", "str"} THEN NotIterable(defects)
    ELSE FrameAfterLoop(ScoreLoop(Items(defects), ScoreStart))

\* analysis.get("defects", []); an analysis without the key "defects" is a
\* record without the field
GetDefects(analysis) ==
    IF "defects" \in DOMAIN analysis THEN analysis.defects ELSE JList(<<>>)

score_frame(analysis) == ScoreDefects(GetDefects(analysis))

(***************************************************************************)
(* risk_calculator.py: score_property                                      *)
(***************************************************************************)
RECURSIVE IntText(_)
\* str(n) for an int n >= 0
IntText(n) ==
    IF n < 10 THEN SubSeq("0123456789", n + 1, n + 1)
    ELSE IntText(n \div 10) \o SubSeq("0123456789", (n % 10) + 1, (n % 10) + 1)

\* line 91: {**d, "frame_index": i}
WithFrameIndex(d, i) == JDict(DictSet(d.v, "frame_index", JInt(IntText(i))))

\* the index is written into d itself
Original_Tagged(d, i) == WithFrameIndex(d, i)

\* line 91: d after {**d, "frame_index": i}, which builds a new dict from
\* the items of d and leaves d as it was
Original(d, i) == d

\* lines 89-91: analysis i (counted from 0) after its defects were gone through
AnalysisAfter(a, i) ==
    IF "defects" \in DOMAIN a /\ a.defects.t = "list"
    THEN [a EXCEPT !.defects =
             JList([q \in 1..Len(a.defects.v) |->
                       IF a.defects.v[q].t = "dict" THEN Original(a.defects.v[q], i)
                       ELSE a.defects.v[q]])]
    ELSE a

\* lines 87-91: what the caller's frame_analyses holds after the call
InputAfter(frame_analyses) ==
    [q \in 1..Len(frame_analyses) |-> AnalysisAfter(frame_analyses[q], q - 1)]

RECURSIVE AllDefects(_, _, _)

\* lines 90-91 for frame i (counted from 0), whose "defects" is defects; the
\* items are dicts, score_frame having raised on any other item at line 87
FrameDefects(frame_analyses, i, done, defects) ==
    IF defects.t \notin {"list", "dict", "str"} THEN NotIterable(defects)
    ELSE AllDefects(frame_analyses, i + 1,
             done \o [q \in 1..Len(Items(defects)) |-> WithFrameIndex(Items(defects)[q], i)])

\* the loop of lines 89-91 from frame i on
AllDefects(frame_analyses, i, done) ==
    IF i = Len(frame_analyses) THEN Returned(done)
    ELSE FrameDefects(frame_analyses, i, done, GetDefects(frame_analyses[i + 1]))

\* lines 94-95: the defects whose severity is s
CountSeverity(all_defects, s) ==
    Cardinality({q \in 1..Len(all_defects) :
                    IsStr(DictGet(all_defects[q].v, "severity", JNone), s)})

RECURSIVE FloatSum(_, _)
\* line 100: sum(scores), the additions made from left to right
FloatSum(scores, acc) ==
    IF scores = <<>> THEN acc ELSE FloatSum(Tail(scores), FloatAdd(acc, Head(scores)))

RECURSIVE FloatMax(_, _)
\* line 101: max(scores), best being the greatest so far
FloatMax(scores, best) ==
    IF scores = <<>> THEN best
    ELSE FloatMax(Tail(scores), IF FloatLess(best, Head(scores)) THEN Head(scores) ELSE best)

\* the overall score leaves the worst frame out: it is the mean alone
Overall_MeanOnly(scores) ==
    Min100(FloatDivInt(FloatSum(scores, FloatZero), Len(scores)))

\* the worst frame has no weight of its own
Blend_MeanOnly(scores) == FloatDivInt(FloatSum(scores, FloatZero), Len(scores))

\* lines 100-102: 0.4 * avg + 0.6 * worst, scores being not empty
Blend(scores) ==
    FloatAdd(
        FloatMul(FloatOfRatio(4, 10), FloatDivInt(FloatSum(scores, FloatZero), Len(scores))),
        FloatMul(FloatOfRatio(6, 10), FloatMax(Tail(scores), Head(scores))))

\* lines 98-106, scores being not empty
Overall(scores) == Min100(Blend(scores))

\* a property scored 0 with no critical defect is banded "safe", as a frame is
PropertyLevel_SafeAtZero(overall, critical_defects) ==
    IF AtLeast(overall, 70) \/ critical_defects >= 3 THEN "critical"
    ELSE IF AtLeast(overall, 45) \/ critical_defects >= 1 THEN "high"
    ELSE IF AtLeast(overall, 20) THEN "medium"
    ELSE IF overall = FloatZero THEN "safe"
    ELSE "low"

\* lines 108-115
PropertyLevel(overall, critical_defects) ==
    IF AtLeast(overall, 70) \/ critical_defects >= 3 THEN "critical"
    ELSE IF AtLeast(overall, 45) \/ critical_defects >= 1 THEN "high"
    ELSE IF AtLeast(overall, 20) THEN "medium"
    ELSE "low"

\* line 120: the sort key of d
PriorityKey(d) ==
    LET sv == DictGet(d.v, "severity", JStr("low"))
    IN  IF sv.t = "str" /\ sv.v \in DOMAIN PRIORITY_ORDER THEN PRIORITY_ORDER[sv.v] ELSE 3

RECURSIVE InsertByPriority(_, _)
\* d put into the sorted s, after the items whose key is not greater
InsertByPriority(s, d) ==
    IF s = <<>> THEN <<d>>
    ELSE IF PriorityKey(Head(s)) <= PriorityKey(d)
         THEN <<Head(s)>> \o InsertByPriority(Tail(s), d)
    ELSE <<d>> \o s

RECURSIVE SortByPriority(_, _)
\* lines 118-121: sorted() is stable
SortByPriority(items, done) ==
    IF items = <<>> THEN done
    ELSE SortByPriority(Tail(items), InsertByPriority(done, Head(items)))

\* the priority actions are not cut to five
TopFive_All(priority_sorted) == priority_sorted

\* line 122
TopFive(priority_sorted) == SubSeq(priority_sorted, 1, Min(5, Len(priority_sorted)))

\* lines 77-85
EmptyProperty ==
    [overall_score |-> FloatZero, risk_level |-> "safe", total_defects |-> 0,
     critical_defects |-> 0, frame_scores |-> <<>>, priority_actions |-> <<>>,
     all_defects |-> <<>>]

\* the frame scores come out in the opposite order
PropertyScore_Reversed(frame_scores, all_defects, overall) ==
    [overall_score    |-> Round1(overall),
     risk_level       |-> PropertyLevel(overall, CountSeverity(all_defects, "critical")),
     total_defects    |-> Len(all_defects),
     critical_defects |-> CountSeverity(all_defects, "critical"),
     high_defects     |-> CountSeverity(all_defects, "high"),
     frame_scores     |-> [q \in 1..Len(frame_scores) |->
                              frame_scores[Len(frame_scores) + 1 - q]],
     priority_actions |-> TopFive(SortByPriority(all_defects, <<>>)),
     all_defects      |-> all_defects]

\* lines 93-96 and 106-133
PropertyScore(frame_scores, all_defects, overall) ==
    [overall_score    |-> Round1(overall),
     risk_level       |-> PropertyLevel(overall, CountSeverity(all_defects, "critical")),
     total_defects    |-> Len(all_defects),
     critical_defects |-> CountSeverity(all_defects, "critical"),
     high_defects     |-> CountSeverity(all_defects, "high"),
     frame_scores     |-> frame_scores,
     priority_actions |-> TopFive(SortByPriority(all_defects, <<>>)),
     all_defects      |-> all_defects]

\* lines 93-133, the loop of lines 88-91 having ended as all says
PropertyAfterDefects(frame_scores, all) ==
    IF all.raised THEN all
    ELSE Returned(PropertyScore(frame_scores, all.val,
                      Overall([q \in 1..Len(frame_scores) |-> frame_scores[q].score])))

\* lines 87-133, scored being how score_frame ended on each analysis
PropertyAfterFrames(frame_analyses, scored) ==
    IF \E q \in 1..Len(scored) : scored[q].raised
    THEN scored[CHOOSE q \in 1..Len(scored) :
                    scored[q].raised /\ \A r \in 1..(q - 1) : ~scored[r].raised]
    ELSE PropertyAfterDefects([q \in 1..Len(scored) |-> scored[q].val],
                              AllDefects(frame_analyses, 0, <<>>))

score_property(frame_analyses) ==
    IF frame_analyses = <<>> THEN Returned(EmptyProperty)
    ELSE PropertyAfterFrames(frame_analyses,
             [q \in 1..Len(frame_analyses) |-> score_frame(frame_analyses[q])])

(***************************************************************************)
(* The analyses the scores are computed for                                *)
(***************************************************************************)
MaxDefects == 3

MaxRepeat == 5

MaxAnalyses == 3

Defect(type, severity) ==
    JDict(<<[k |-> "type", v |-> JStr(type)], [k |-> "severity", v |-> JStr(severity)],
            [k |-> "description", v |-> JStr("seen")], [k |-> "bbox", v |-> FullImageBox]>>)

\* the defects of the lists score_frame is applied to; "rust" is no key of
\* DEFECT_TYPES and "severe" no severity
DefectKinds ==
    {Defect("electrical_hazard", "critical"), Defect("structural_crack", "high"),
     Defect("plumbing_issue", "medium"), Defect("other", "low"),
     Defect("rust", "critical"), Defect("mold", "severe")}

RECURSIVE SeqsUpTo(_, _)
\* the sequences of at most n members of S
SeqsUpTo(S, n) ==
    IF n = 0 THEN {<<>>}
    ELSE SeqsUpTo(S, n - 1)
         \cup {Append(s, x) : s \in {t \in SeqsUpTo(S, n - 1) : Len(t) = n - 1}, x \in S}

Found(defects) == Analysis(JList(defects), JStr("fair"), JStr("Seen."))

\* an analysis without the key "defects"
NoDefectsKey ==
    [room_condition |-> JStr("good"), summary |-> JStr("Nothing to report."),
     has_error |-> FALSE, error |-> ""]

\* every list of at most MaxDefects defects, and one defect up to MaxRepeat times
FrameInputs ==
    {Found(l) : l \in SeqsUpTo(DefectKinds, MaxDefects)}
    \cup {Found([q \in 1..n |-> d]) : n \in 1..MaxRepeat, d \in DefectKinds}
    \cup {NoDefectsKey, Analysis(JNone, JStr("good"), JStr("Nothing to report."))}

\* the analyses of a property: the degraded ones of analyze_image,
\* analyze_frames and _parse_response, a room with nothing found, the
\* one without the key "defects", the analysis of GoodResponse, and rooms
\* with one to four defects
PropertyInputs ==
    {Exhausted("Quota exceeded"), AnalysisFailed("Connection reset by peer"),
     CouldNotParse("I see no image."), Found(<<>>), NoDefectsKey,
     _parse_response(GoodResponse).val,
     Found(<<Defect("electrical_hazard", "critical")>>),
     Found(<<Defect("plumbing_issue", "high")>>),
     Found(<<Defect("other", "low"), Defect("plumbing_issue", "medium"),
             Defect("exposed_wiring", "critical"), Defect("wall_crack", "high")>>),
     Found(<<Defect("structural_crack", "high"), Defect("structural_crack", "medium"),
             Defect("wall_crack", "high"), Defect("plumbing_issue", "high")>>),
     Found(<<Defect("structural_crack", "high"), Defect("structural_crack", "high"),
             Defect("structural_crack", "high"), Defect("structural_crack", "high")>>)}

ScoreInputs ==
    SeqsUpTo(PropertyInputs, MaxAnalyses) \cup {<<a>> : a \in FrameInputs}

(***************************************************************************)
(* detector.py: _extract_frames and extract_frames_from_bytes.  A video is *)
(* the record [opened, native_fps, n_frames]: whether cv2.VideoCapture     *)
(* opens it, what cap.get(cv2.CAP_PROP_FPS) gives (0.0 when the rate is    *)
(* not known) and how many times cap.read() gives a frame.  A sample is    *)
(* the tuple (image, idx, read_idx / fps) of line 180, the image named by  *)
(* the read position of the frame it was made from.                        *)
(***************************************************************************)
\* line 170: max(1, int(fps * interval_sec))
step(fps, interval_sec) ==
    IF IntOfFloat(FloatMul(fps, interval_sec)) < 1 THEN 1
    ELSE IntOfFloat(FloatMul(fps, interval_sec))

\* line 169: cap.get(cv2.CAP_PROP_FPS) or 25.0
FpsOf(video) == IF video.native_fps.m = <<>> THEN FloatOfInt(25) ELSE video.native_fps

\* the samples carry the read position, not the count of the samples
Sample_ReadIndex(read_idx, idx, fps) ==
    [image |-> read_idx, frame_index |-> read_idx,
     timestamp_sec |-> FloatDiv(FloatOfInt(read_idx), fps)]

\* line 180
Sample(read_idx, idx, fps) ==
    [image |-> read_idx, frame_index |-> idx,
     timestamp_sec |-> FloatDiv(FloatOfInt(read_idx), fps)]

\* line 167: cap.isOpened(), taken to be true of every video
Opens_Always(video) == TRUE

\* line 167: cap.isOpened()
Opens(video) == video.opened

\* line 175: ret, read_idx frames having been read
Ret(video, read_idx) == video.opened /\ read_idx < video.n_frames

\* lines 171-173, and where _extract_frames is from then on: reads counts
\* the calls of cap.read()
LoopStart(period) ==
    [raised |-> FALSE, exc |-> "", frames |-> <<>>, idx |-> 0, read_idx |-> 0,
     reads |-> 0, step |-> period]

\* line 168; the path is left out of the message
CannotOpen ==
    [raised |-> TRUE, exc |-> "ValueError: Cannot open video", frames |-> <<>>,
     idx |-> 0, read_idx |-> 0, reads |-> 0, step |-> 0]

\* lines 178-181, a frame having been read
Sampled(x, fps) ==
    IF x.read_idx % x.step = 0
    THEN [x EXCEPT !.frames = Append(@, Sample(x.read_idx, x.idx, fps)), !.idx = @ + 1]
    ELSE x

\* lines 175-182, cap.read() having given a frame
AfterRead(x, fps) == [Sampled(x, fps) EXCEPT !.read_idx = @ + 1, !.reads = @ + 1]

\* the temporary file after lines 154-158: os.unlink removes it, or raises
\* an OSError that is passed over
Unlinked(unlink_ok) == IF unlink_ok THEN "removed" ELSE "left"

(***************************************************************************)
(* The videos the frames are extracted from                                *)
(***************************************************************************)
MaxSource == 12

LongVideo == 320

\* frames a second, in hundredths; 0 is a rate that is not known
NativeRates == {0, 100, 200, 750, 2997, 3000}

\* src/app.py line 111: the slider goes from 0.5 in steps of 0.5; in halves
Intervals == {1, 2, 4}

\* max_frames
Caps == {0, 1, 3, 30}

Videos ==
    {[opened |-> o, native_fps |-> FloatOfRatio(h, 100), n_frames |-> n] :
        o \in BOOLEAN, h \in NativeRates, n \in (0..MaxSource) \cup {30 * 10, LongVideo}}

(***************************************************************************)
(* detector.py: annotate_yolo.  A defect of a detection is the record      *)
(* [bbox, severity] with bbox the four numbers x1, y1, x2, y2 in tenths of *)
(* a pixel; what is drawn is the sequence of the cv2.rectangle and         *)
(* cv2.putText calls with the points they are given.                       *)
(***************************************************************************)
\* int(v) of line 118 for v in tenths: the fraction is cut off, towards 0
PixelOf(t) == IF t >= 0 THEN t \div 10 ELSE 0 - ((0 - t) \div 10)

\* line 127
Thickness(severity) == IF severity \in {"critical", "high"} THEN 3 ELSE 2

\* lines 128-136 for the box x1, y1, x2, y2, ly being max(y1 - th - 6, 0)
\* of line 134 and (tw, th) the size cv2.getTextSize gave for the label
DrawBox(x1, y1, x2, y2, ly, tw, th, severity) ==
    <<[op |-> "rectangle", x1 |-> x1, y1 |-> y1, x2 |-> x2, y2 |-> y2,
       thickness |-> Thickness(severity)],
      [op |-> "rectangle", x1 |-> x1, y1 |-> ly, x2 |-> x1 + tw + 4, y2 |-> ly + th + 8,
       thickness |-> 0 - 1],
      [op |-> "putText", x1 |-> x1 + 2, y1 |-> ly + th + 4, x2 |-> x1 + 2,
       y2 |-> ly + th + 4, thickness |-> 1]>>

\* lines 118-136 for the defect d
DrawDefect(d, tw, th) ==
    DrawBox(PixelOf(d.bbox[1]), PixelOf(d.bbox[2]), PixelOf(d.bbox[3]), PixelOf(d.bbox[4]),
            IF PixelOf(d.bbox[2]) - th - 6 > 0 THEN PixelOf(d.bbox[2]) - th - 6 ELSE 0,
            tw, th, d.severity)

RECURSIVE annotate_yolo(_, _, _)
\* lines 116-138: what is drawn on the copy of the image
annotate_yolo(defects, tw, th) ==
    IF defects = <<>> THEN <<>>
    ELSE DrawDefect(Head(defects), tw, th) \o annotate_yolo(Tail(defects), tw, th)

(***************************************************************************)
(* The images and detections that are annotated                            *)
(***************************************************************************)
MaxBoxes == 2

\* width and height of the images
Sizes == {<<200, 100>>, <<640, 480>>}

\* (tw, th) of line 133
TextSizes == {<<40, 11>>, <<120, 11>>}

\* bboxes in tenths of a pixel: inside a 200 x 100 image with room for the
\* label, the whole 200 x 100 image as the local model gives it, the bbox
\* [0, 0, 1000, 1000], one with a corner left of and above the image, one
\* near the right edge
Boxes ==
    {<<100, 300, 500, 600>>, <<0, 0, 2000, 1000>>, <<0, 0, 10000, 10000>>,
     <<-55, -120, 400, 400>>, <<1705, 400, 1989, 905>>}

Detections ==
    SeqsUpTo({[bbox |-> b, severity |-> sv] : b \in Boxes, sv \in {"high", "low"}}, MaxBoxes)

(***************************************************************************)
(* State                                                                   *)
(***************************************************************************)
VARIABLES
    mode,          \* "single": one analyze_image call; "batch": analyze_frames
    model_name,    \* the model_name argument
    frames,        \* the frames argument: the images, named 1, 2, ...
    has_callback,  \* whether progress_callback is given
    pc,            \* where the program is
    f_idx,         \* analyze_frames: i, the frames done
    results,       \* analyze_frames: results
    image,         \* analyze_image: its image argument
    m_idx,         \* analyze_image: the position of m_name in models_to_try
    attempt,       \* analyze_image: attempt
    last_error,    \* analyze_image: str(last_error)
    out,           \* how the analyze_image call ended
    calls,         \* history: the oracle calls and sleeps of this analyze_image call
    lastFailure,   \* history: the text of the last failure the oracle answered with
    blog,          \* history: the frames started, results appended, callbacks made
    analysed,      \* history: the analyze_image calls that ended, [image, out]
    ptext,         \* a call of _parse_response alone: its text argument
    ppc,           \* ... where it is
    pout,          \* ... how it ended
    analyses,      \* app.py: the analyses to score
    score_pc,      \* ... where the scoring is
    fs_shown,      \* ... how score_frame ended for each analysis shown so far
    prop_score,    \* ... how score_property ended
    prop_again,    \* ... how score_property ended when the page was run again
    x_call,        \* extract_frames_from_bytes: the video, interval_sec, max_frames
    x_pc,          \* ... where the call is
    x_out,         \* ... how it ended
    tmp_file,      \* ... the temporary file: "none", "written", "removed", "left"
    a_call,        \* annotate_yolo: the size of the image, the detection, the text size
    a_pc,          \* ... where the call is
    drawn          \* ... the cv2 calls that drew on the copy of the image

analyzer_vars ==
    <<mode, model_name, frames, has_callback, pc, f_idx, results, image, m_idx,
      attempt, last_error, out, calls, lastFailure, blog, analysed>>

parse_vars == <<ptext, ppc, pout>>

score_vars == <<analyses, score_pc, fs_shown, prop_score, prop_again>>

sampler_vars == <<x_call, x_pc, x_out, tmp_file>>

annotator_vars == <<a_call, a_pc, drawn>>

vars == <<analyzer_vars, parse_vars, score_vars, sampler_vars, annotator_vars>>

\* what the actions of analyze_image and analyze_frames leave alone
beside_analyzer == <<parse_vars, score_vars, sampler_vars, annotator_vars>>

\* what the call of _parse_response alone leaves alone
beside_parse == <<analyzer_vars, score_vars, sampler_vars, annotator_vars>>

\* what the scoring leaves alone
beside_score == <<analyzer_vars, parse_vars, sampler_vars, annotator_vars>>

\* what the frame sampler leaves alone
beside_sampler == <<analyzer_vars, parse_vars, score_vars, annotator_vars>>

\* what the annotator leaves alone
beside_annotator == <<analyzer_vars, parse_vars, score_vars, sampler_vars>>

\* no video is being sampled
SamplerIdle ==
    /\ x_call = [video |-> [opened |-> FALSE, native_fps |-> FloatZero, n_frames |-> 0],
                 interval_sec |-> FloatZero, max_frames |-> 0]
    /\ x_pc = "idle" /\ x_out = CannotOpen /\ tmp_file = "none"

\* no image is being annotated
AnnotatorIdle ==
    /\ a_call = [width |-> 0, height |-> 0, defects |-> <<>>, tw |-> 0, th |-> 0]
    /\ a_pc = "idle" /\ drawn = <<>>

NoOut == Raised("")

CallEvent(kind) ==
    [ev |-> "call", model |-> models_to_try(model_name)[m_idx], attempt |-> attempt,
     kind |-> kind, secs |-> 0]

SleepEvent(secs) ==
    [ev |-> "sleep", model |-> models_to_try(model_name)[m_idx], attempt |-> attempt,
     kind |-> "", secs |-> secs]

Init ==
    /\ mode \in {"single", "batch"}
    /\ model_name \in ModelNames
    /\ frames \in {[k \in 1..n |-> k] : n \in 0..MaxFrames}
    /\ has_callback \in BOOLEAN
    /\ mode = "single" => frames = <<1>> /\ ~has_callback
    /\ pc = IF mode = "single" THEN "caller" ELSE "loop"
    /\ f_idx = 0
    /\ results = <<>>
    /\ image = 0
    /\ m_idx = 1
    /\ attempt = 0
    /\ last_error = "None"
    /\ out = NoOut
    /\ calls = <<>>
    /\ lastFailure = ""
    /\ blog = <<>>
    /\ analysed = <<>>
    /\ ptext = "" /\ ppc = "idle" /\ pout = NoOut
    /\ analyses = <<>> /\ score_pc = "idle" /\ fs_shown = <<>> /\ prop_score = NoOut
    /\ prop_again = NoOut
    /\ SamplerIdle /\ AnnotatorIdle

\* lines 93-97: analyze_image is entered
Enter(img) ==
    /\ image' = img
    /\ m_idx' = 1
    /\ attempt' = 0
    /\ last_error' = "None"
    /\ out' = NoOut
    /\ calls' = <<>>
    /\ lastFailure' = ""
    /\ pc' = "try"

\* analyze_image ends with o: it returns a dict or raises
Leave(o) ==
    /\ out' = o
    /\ analysed' = Append(analysed, [image |-> image, out |-> o])
    /\ pc' = "image_done"
    /\ UNCHANGED <<m_idx, attempt>>

\* line 96: the next m_name, or lines 127-135 when there is none
Advance(err) ==
    IF m_idx < Len(models_to_try(model_name))
    THEN /\ m_idx' = m_idx + 1
         /\ attempt' = 0
         /\ UNCHANGED <<out, analysed, pc>>
    ELSE Leave(Returned(Exhausted(err)))

\* lines 112-125: the branch todo of the except clause
Handle(msg, log, todo) ==
    CASE todo = "break" -> calls' = log /\ Advance(msg)
      [] todo = "sleep" ->
             /\ calls' = Append(log, SleepEvent(Wait(attempt)))
             /\ attempt' = attempt + 1
             /\ UNCHANGED <<m_idx, out, analysed, pc>>
      [] OTHER -> calls' = log /\ Leave(Raised(msg))

\* lines 109-125: the except clause, for an exception whose str() is msg,
\* after the history log
Except(msg, log) ==
    /\ last_error' = msg
    /\ Handle(msg, log, Decide(KindOf[msg], attempt))

\* a single analyze_image call (app.py)
CallAnalyzeImage ==
    /\ mode = "single" /\ pc = "caller"
    /\ Enter(frames[1])
    /\ UNCHANGED <<mode, model_name, frames, has_callback, f_idx, results, blog, analysed>>
    /\ UNCHANGED beside_analyzer

\* lines 149-151: the loop of analyze_frames takes the next frame
StartFrame ==
    /\ mode = "batch" /\ pc = "loop" /\ f_idx < Len(frames)
    /\ blog' = Append(blog, [ev |-> "start", a |-> frames[f_idx + 1], b |-> 0])
    /\ Enter(frames[f_idx + 1])
    /\ UNCHANGED <<mode, model_name, frames, has_callback, f_idx, results, analysed>>
    /\ UNCHANGED beside_analyzer

\* line 108: _parse_response ended as r says, after the history log
Answered(r, log) ==
    IF r.raised
    THEN Except(r.exc, log)
    ELSE /\ calls' = log
         /\ Leave(r)
         /\ UNCHANGED last_error

\* lines 99-108: generate_content answers with text; _parse_response returns,
\* or raises inside the try block
OracleSucceeds(text) ==
    /\ pc = "try"
    /\ Answered(Parsed[text], Append(calls, CallEvent("Success")))
    /\ UNCHANGED <<mode, model_name, frames, has_callback, f_idx, results, image,
                   lastFailure, blog>>
    /\ UNCHANGED beside_analyzer

\* lines 99-125: generate_content raises e, str(e) = msg
OracleFails(msg) ==
    /\ pc = "try"
    /\ lastFailure' = msg
    /\ Except(msg, Append(calls, CallEvent(KindOf[msg])))
    /\ UNCHANGED <<mode, model_name, frames, has_callback, f_idx, results, image, blog>>
    /\ UNCHANGED beside_analyzer

\* the callback is handed the loop index as it is
Progress_ZeroBased(k, n) ==
    IF has_callback THEN <<[ev |-> "callback", a |-> k, b |-> n]>> ELSE <<>>

\* lines 160-161: the callback, after the k-th pass of the loop (from 0)
Progress(k, n) ==
    IF has_callback THEN <<[ev |-> "callback", a |-> k + 1, b |-> n]>> ELSE <<>>

\* lines 151-161: analyze_image is back; the result is kept, the callback made
FinishFrame ==
    /\ mode = "batch" /\ pc = "image_done"
    /\ results' = Append(results, FrameResult(out))
    /\ blog' = blog \o <<[ev |-> "append", a |-> image, b |-> Len(results) + 1]>>
                    \o Progress(f_idx, Len(frames))
    /\ f_idx' = f_idx + 1
    /\ pc' = "loop"
    /\ UNCHANGED <<mode, model_name, frames, has_callback, image, m_idx, attempt,
                   last_error, out, calls, lastFailure, analysed>>
    /\ UNCHANGED beside_analyzer

\* line 162
ReturnResults ==
    /\ mode = "batch" /\ pc = "loop" /\ f_idx = Len(frames)
    /\ pc' = "done"
    /\ UNCHANGED <<mode, model_name, frames, has_callback, f_idx, results, image, m_idx,
                   attempt, last_error, out, calls, lastFailure, blog, analysed>>
    /\ UNCHANGED beside_analyzer

Next ==
    \/ CallAnalyzeImage
    \/ StartFrame
    \/ \E text \in Responses : OracleSucceeds(text)
    \/ \E msg \in Failures : OracleFails(msg)
    \/ FinishFrame
    \/ ReturnResults

Spec == Init /\ [][Next]_vars

(***************************************************************************)
(* One analyze_image call whose first oracle call fails with a text of     *)
(* MarkedFailures; the calls that follow answer with GoodResponse          *)
(***************************************************************************)
InitClassify == Init /\ mode = "single"

FirstCallFails == calls = <<>> /\ \E msg \in MarkedFailures : OracleFails(msg)

LaterCallAnswers == calls # <<>> /\ OracleSucceeds("~~~json\n" \o GoodResponse \o "\n~~~")

NextClassify == CallAnalyzeImage \/ FirstCallFails \/ LaterCallAnswers

SpecClassify == InitClassify /\ [][NextClassify]_vars

\* every oracle call answers or fails, every sleep ends, and the caller goes
\* on when analyze_image is back
SpecLive == Init /\ [][Next]_vars /\ WF_vars(Next)

(***************************************************************************)
(* _parse_response alone, on the texts of ParseTexts                       *)
(***************************************************************************)
InitParse ==
    /\ ptext \in ParseTexts
    /\ ppc = "call"
    /\ pout = NoOut
    /\ mode = "single" /\ model_name = "gemini-2.0-flash" /\ frames = <<1>>
    /\ has_callback = FALSE /\ pc = "idle" /\ f_idx = 0 /\ results = <<>>
    /\ image = 0 /\ m_idx = 1 /\ attempt = 0 /\ last_error = "None"
    /\ out = NoOut /\ calls = <<>> /\ lastFailure = "" /\ blog = <<>>
    /\ analysed = <<>>
    /\ analyses = <<>> /\ score_pc = "idle" /\ fs_shown = <<>> /\ prop_score = NoOut
    /\ prop_again = NoOut
    /\ SamplerIdle /\ AnnotatorIdle

\* lines 165-209
ParseResponse ==
    /\ ppc = "call"
    /\ pout' = _parse_response(ptext)
    /\ ppc' = "done"
    /\ UNCHANGED ptext
    /\ UNCHANGED beside_parse

NextParse == ParseResponse

SpecParse == InitParse /\ [][NextParse]_vars

(***************************************************************************)
(* score_frame and score_property alone, as app.py calls them: score_frame *)
(* on each analysis as it is shown, then score_property on all of them     *)
(***************************************************************************)
InitScore ==
    /\ analyses \in ScoreInputs
    /\ score_pc = "frames"
    /\ fs_shown = <<>>
    /\ prop_score = NoOut
    /\ prop_again = NoOut
    /\ mode = "single" /\ model_name = "gemini-2.0-flash" /\ frames = <<1>>
    /\ has_callback = FALSE /\ pc = "idle" /\ f_idx = 0 /\ results = <<>>
    /\ image = 0 /\ m_idx = 1 /\ attempt = 0 /\ last_error = "None"
    /\ out = NoOut /\ calls = <<>> /\ lastFailure = "" /\ blog = <<>>
    /\ analysed = <<>>
    /\ ptext = "" /\ ppc = "idle" /\ pout = NoOut
    /\ SamplerIdle /\ AnnotatorIdle

\* fs is how score_frame ended on the next analysis
ShowFrame(fs) ==
    /\ fs_shown' = Append(fs_shown, fs)
    /\ score_pc' = IF fs.raised THEN "raised" ELSE score_pc

\* src/app.py line 157: fs = score_frame(analysis)
ScoreFrame ==
    /\ score_pc = "frames"
    /\ Len(fs_shown) < Len(analyses)
    /\ ShowFrame(score_frame(analyses[Len(fs_shown) + 1]))
    /\ UNCHANGED <<analyses, prop_score, prop_again>>
    /\ UNCHANGED beside_score

\* src/app.py line 179: prop_score = score_property(analyses)
ScoreProperty ==
    /\ score_pc = "frames"
    /\ Len(fs_shown) = Len(analyses)
    /\ prop_score' = score_property(analyses)
    /\ analyses' = InputAfter(analyses)
    /\ score_pc' = "done"
    /\ UNCHANGED <<fs_shown, prop_again>>
    /\ UNCHANGED beside_score

\* src/app.py line 494: the page is run again and score_property is called
\* on the analyses it was called on before
ScorePropertyAgain ==
    /\ score_pc = "done"
    /\ prop_again = NoOut
    /\ prop_again' = score_property(analyses)
    /\ analyses' = InputAfter(analyses)
    /\ score_pc' = "again"
    /\ UNCHANGED <<fs_shown, prop_score>>
    /\ UNCHANGED beside_score

NextScore == ScoreFrame \/ ScoreProperty \/ ScorePropertyAgain

SpecScore == InitScore /\ [][NextScore]_vars

(***************************************************************************)
(* extract_frames_from_bytes alone, on the videos of Videos                *)
(***************************************************************************)
\* nothing is analysed, parsed or scored
AppIdle ==
    /\ mode = "single" /\ model_name = "gemini-2.0-flash" /\ frames = <<1>>
    /\ has_callback = FALSE /\ pc = "idle" /\ f_idx = 0 /\ results = <<>>
    /\ image = 0 /\ m_idx = 1 /\ attempt = 0 /\ last_error = "None"
    /\ out = NoOut /\ calls = <<>> /\ lastFailure = "" /\ blog = <<>>
    /\ analysed = <<>>
    /\ ptext = "" /\ ppc = "idle" /\ pout = NoOut
    /\ analyses = <<>> /\ score_pc = "idle" /\ fs_shown = <<>> /\ prop_score = NoOut
    /\ prop_again = NoOut

InitSample ==
    /\ x_call \in [video : Videos, interval_sec : {FloatOfRatio(h, 2) : h \in Intervals},
                   max_frames : Caps]
    /\ x_pc = "call"
    /\ x_out = CannotOpen
    /\ tmp_file = "none"
    /\ AnnotatorIdle /\ AppIdle

\* lines 149-151: the bytes are written to a temporary file
WriteTemporary ==
    /\ x_pc = "call"
    /\ tmp_file' = "written"
    /\ x_pc' = "try"
    /\ UNCHANGED <<x_call, x_out>>
    /\ UNCHANGED beside_sampler

\* lines 154-158: the finally clause, before the caller has the frames or
\* the error
Finally ==
    /\ \E unlink_ok \in BOOLEAN : tmp_file' = Unlinked(unlink_ok)
    /\ x_pc' = "done"

\* lines 153 and 166-173: _extract_frames is called and opens the video
OpenVideo ==
    /\ x_pc = "try"
    /\ IF Opens(x_call.video)
       THEN /\ x_out' = LoopStart(step(FpsOf(x_call.video), x_call.interval_sec))
            /\ x_pc' = "loop"
            /\ UNCHANGED tmp_file
       ELSE /\ x_out' = CannotOpen
            /\ Finally
    /\ UNCHANGED x_call
    /\ UNCHANGED beside_sampler

\* lines 174-182: one more frame is read
ReadFrame ==
    /\ x_pc = "loop"
    /\ Len(x_out.frames) < x_call.max_frames
    /\ Ret(x_call.video, x_out.read_idx)
    /\ x_out' = AfterRead(x_out, FpsOf(x_call.video))
    /\ UNCHANGED <<x_call, x_pc, tmp_file>>
    /\ UNCHANGED beside_sampler

\* lines 174-177 and 183-184: cap.read() gives no frame, the frames are returned
EndOfStream ==
    /\ x_pc = "loop"
    /\ Len(x_out.frames) < x_call.max_frames
    /\ ~Ret(x_call.video, x_out.read_idx)
    /\ x_out' = [x_out EXCEPT !.reads = @ + 1]
    /\ Finally
    /\ UNCHANGED x_call
    /\ UNCHANGED beside_sampler

\* lines 174 and 183-184: max_frames samples are made, the frames are returned
EnoughFrames ==
    /\ x_pc = "loop"
    /\ Len(x_out.frames) >= x_call.max_frames
    /\ Finally
    /\ UNCHANGED <<x_call, x_out>>
    /\ UNCHANGED beside_sampler

NextSample == WriteTemporary \/ OpenVideo \/ ReadFrame \/ EndOfStream \/ EnoughFrames

SpecSample == InitSample /\ [][NextSample]_vars

(***************************************************************************)
(* annotate_yolo alone, on the detections of Detections                    *)
(***************************************************************************)
InitAnnotate ==
    /\ a_call \in {[width |-> sz[1], height |-> sz[2], defects |-> ds, tw |-> ts[1],
                    th |-> ts[2]] : sz \in Sizes, ds \in Detections, ts \in TextSizes}
    /\ a_pc = "call"
    /\ drawn = <<>>
    /\ SamplerIdle /\ AppIdle

\* lines 114-138
AnnotateYolo ==
    /\ a_pc = "call"
    /\ drawn' = annotate_yolo(a_call.defects, a_call.tw, a_call.th)
    /\ a_pc' = "done"
    /\ UNCHANGED a_call
    /\ UNCHANGED beside_annotator

NextAnnotate == AnnotateYolo

SpecAnnotate == InitAnnotate /\ [][NextAnnotate]_vars

(***************************************************************************)
(* Properties of analyze_image and analyze_frames (specification Spec)     *)
(***************************************************************************)
IsCall(e) == e.ev = "call"

\* the position of a candidate in the sequence of candidates, 0 when absent
PosOf(name) ==
    LET cand == models_to_try(model_name)
    IN  IF \E q \in 1..Len(cand) : cand[q] = name
        THEN CHOOSE q \in 1..Len(cand) : cand[q] = name
        ELSE 0

IsEmptyList(v) == v.t = "list" /\ Len(v.v) = 0

IsDegraded(r) ==
    /\ IsEmptyList(r.defects)
    /\ r.room_condition.t = "str" /\ r.room_condition.v = "unknown"
    /\ r.has_error

OnlyNotFoundOrRateLimited ==
    /\ pc = "image_done"
    /\ \A q \in 1..Len(calls) :
           IsCall(calls[q]) => calls[q].kind \in {"NotFound", "RateLimited"}

\* C1: when every candidate fails with NotFound or RateLimited failures
\* only, analyze_image does not raise: it returns empty defects,
\* room_condition "unknown", error = the full text of the last failure, and
\* a summary holding the first 200 characters of that text and no more.
C1_ExhaustionDegrades ==
    OnlyNotFoundOrRateLimited =>
        /\ ~out.raised
        /\ IsDegraded(out.val)
        /\ out.val.error = lastFailure
        /\ out.val.summary.t = "str"
        /\ out.val.summary.v =
               "API error after retries: " \o Take(lastFailure, 200) \o ". "
               \o "Check your API key quota at https://ai.dev/rate-limit - "
               \o "you may need to wait a minute or use a different key."
        /\ Len(lastFailure) > 200 => ~Contains(out.val.summary.v, lastFailure)

\* every candidate has failed, the last one with a text longer than 200
C1_Witness ==
    /\ OnlyNotFoundOrRateLimited
    /\ Len(lastFailure) > 200
    /\ \E q \in 1..Len(calls) : calls[q].kind = "NotFound"
    /\ Len(SelectSeq(calls, IsCall)) > Len(models_to_try(model_name))

\* C2: analyze_frames returns one result per frame, result k being the
\* outcome of analyze_image on frame k; the frames are taken in input
\* order, a frame that failed does not stop the later ones, and all it
\* leaves is a degraded result (no defects, "unknown", error set).
C2_BatchResults ==
    (mode = "batch" /\ pc = "done") =>
        /\ Len(results) = Len(frames)
        /\ Len(analysed) = Len(frames)
        /\ LET started == SelectSeq(blog, LAMBDA e : e.ev = "start")
           IN  /\ Len(started) = Len(frames)
               /\ \A k \in 1..Len(frames) : started[k].a = frames[k]
        /\ \A k \in 1..Len(frames) :
               /\ analysed[k].image = frames[k]
               /\ IF analysed[k].out.raised
                  THEN /\ IsDegraded(results[k])
                       /\ results[k].error = analysed[k].out.exc
                  ELSE results[k] = analysed[k].out.val
               /\ results[k].has_error => IsDegraded(results[k])

\* a batch of two frames is over; the first frame raised, the second did not
C2_Witness ==
    /\ mode = "batch" /\ pc = "done" /\ Len(frames) = 2
    /\ analysed[1].out.raised
    /\ ~analysed[2].out.raised /\ ~results[2].has_error

Callbacks == SelectSeq(blog, LAMBDA e : e.ev = "callback")

\* C3: progress_callback is called once per frame, right after the frame's
\* result was appended and before the next frame starts, whether the frame
\* failed or not; the k-th call is given (k, n), n the number of frames.
C3_ProgressCallbacks ==
    (mode = "batch" /\ has_callback) =>
        /\ \A k \in 1..Len(Callbacks) :
               Callbacks[k].a = k /\ Callbacks[k].b = Len(frames)
        /\ \A q \in 1..Len(blog) :
               /\ blog[q].ev = "append" =>
                      /\ q < Len(blog)
                      /\ blog[q + 1].ev = "callback"
                      /\ blog[q + 1].a = blog[q].b
               /\ blog[q].ev = "callback" => q > 1 /\ blog[q - 1].ev = "append"
               /\ blog[q].ev = "start" =>
                      Len(SelectSeq(SubSeq(blog, 1, q), LAMBDA e : e.ev = "callback"))
                          = blog[q].a - 1
        /\ Len(Callbacks) = Len(results)
        /\ pc = "done" => Len(Callbacks) = Len(frames)

\* a batch of two frames with a callback is over; the first frame raised
C3_Witness ==
    /\ mode = "batch" /\ has_callback /\ pc = "done" /\ Len(frames) = 2
    /\ analysed[1].out.raised /\ ~analysed[2].out.raised
    /\ Len(Callbacks) = 2

LastCall == calls[Len(calls)]

\* C4 as stated: in batch mode an Other failure on a candidate that is not
\* the last makes analyze_image go on to the next candidate for the frame.
C4_OtherAdvancesChain ==
    ( /\ mode = "batch" /\ calls # <<>>
      /\ LastCall.kind = "Other"
      /\ PosOf(LastCall.model) < Len(models_to_try(model_name)) )
    => /\ pc = "try"
       /\ m_idx = PosOf(LastCall.model) + 1

\* C4 as amended: in batch mode an Other failure ends the analysis of the
\* frame: no call or sleep follows it, analyze_image raises it, and
\* analyze_frames keeps for the frame the degraded result carrying the text
\* of the failure, and goes on to the end of the batch.
C4_OtherEndsFrame ==
    mode = "batch" =>
        /\ \A q \in 1..Len(calls) :
               calls[q].kind = "Other" =>
                   /\ q = Len(calls)
                   /\ pc # "try"
                   /\ out.raised /\ out.exc = lastFailure
        /\ \A k \in 1..Len(results) :
               analysed[k].out.raised =>
                   results[k] = [defects |-> JList(<<>>),
                                 room_condition |-> JStr("unknown"),
                                 summary |-> JStr("Analysis failed: "
                                                  \o analysed[k].out.exc),
                                 has_error |-> TRUE,
                                 error |-> analysed[k].out.exc]
        /\ pc = "done" => Len(results) = Len(frames)

\* a batch of two frames is over; the first frame met an Other failure on
\* its first candidate, the second frame was analysed all the same
C4_Witness ==
    /\ mode = "batch" /\ pc = "done" /\ Len(frames) = 2
    /\ analysed[1].out.raised
    /\ analysed[1].out.exc = "Connection reset by peer"
    /\ results[1].error = "Connection reset by peer"
    /\ ~results[2].has_error

\* C5: in a single analyze_image call the first failure classified Other
\* is raised to the caller at once: no oracle call and no sleep follows it.
C5_OtherPropagates ==
    mode = "single" =>
        \A q \in 1..Len(calls) :
            calls[q].kind = "Other" =>
                /\ q = Len(calls)
                /\ pc = "image_done"
                /\ out.raised
                /\ out.exc = lastFailure

\* an Other failure at a first attempt, after a retry of an earlier model,
\* with candidates left
C5_Witness ==
    /\ mode = "single" /\ pc = "image_done"
    /\ Len(calls) >= 4
    /\ LastCall.kind = "Other" /\ LastCall.attempt = 0
    /\ \E q \in 1..Len(calls) : calls[q].ev = "sleep"
    /\ PosOf(LastCall.model) < Len(models_to_try(model_name))

\* C6: a RateLimited failure at attempt a (from 0) is followed by a sleep of
\* 12 * (a + 1) seconds and a retry of the same model while the model has
\* attempts left of its 2; at the last attempt it is followed by no sleep
\* and the next candidate.  Nothing else sleeps.
C6_RateLimitBackoff ==
    \A q \in 1..Len(calls) :
        /\ (IsCall(calls[q]) /\ calls[q].kind = "RateLimited") =>
              IF calls[q].attempt + 1 < 2
              THEN /\ q < Len(calls)
                   /\ calls[q + 1].ev = "sleep"
                   /\ calls[q + 1].secs = 12 * (calls[q].attempt + 1)
                   /\ q + 1 < Len(calls) =>
                          /\ IsCall(calls[q + 2])
                          /\ calls[q + 2].model = calls[q].model
                          /\ calls[q + 2].attempt = calls[q].attempt + 1
                   /\ q + 1 = Len(calls) =>
                          /\ pc = "try"
                          /\ m_idx = PosOf(calls[q].model)
                          /\ attempt = calls[q].attempt + 1
              ELSE /\ q < Len(calls) =>
                          /\ IsCall(calls[q + 1])
                          /\ PosOf(calls[q + 1].model) = PosOf(calls[q].model) + 1
                          /\ calls[q + 1].attempt = 0
                   /\ (q = Len(calls) /\ pc = "try") =>
                          /\ m_idx = PosOf(calls[q].model) + 1
                          /\ attempt = 0
        /\ calls[q].ev = "sleep" =>
              /\ q > 1
              /\ IsCall(calls[q - 1]) /\ calls[q - 1].kind = "RateLimited"

\* a model was rate limited twice, with the sleep in between, and the next
\* candidate was called
C6_Witness ==
    \E q \in 1..Len(calls) :
        /\ q + 3 <= Len(calls)
        /\ calls[q].kind = "RateLimited" /\ calls[q].attempt = 0
        /\ calls[q + 1].ev = "sleep" /\ calls[q + 1].secs = 12
        /\ calls[q + 2].kind = "RateLimited" /\ calls[q + 2].attempt = 1
        /\ IsCall(calls[q + 3]) /\ calls[q + 3].model # calls[q].model

\* C7: a NotFound failure abandons the model at once: the model is not
\* called again in this analyze_image call, no sleep follows, and the next
\* oracle call is the first attempt of the next candidate.
C7_NotFoundAbandons ==
    \A q \in 1..Len(calls) :
        calls[q].kind = "NotFound" =>
            /\ \A r \in (q + 1)..Len(calls) : calls[r].model # calls[q].model
            /\ q < Len(calls) =>
                   /\ IsCall(calls[q + 1])
                   /\ PosOf(calls[q + 1].model) = PosOf(calls[q].model) + 1
                   /\ calls[q + 1].attempt = 0
            /\ (q = Len(calls) /\ pc = "try") =>
                   /\ m_idx = PosOf(calls[q].model) + 1
                   /\ attempt = 0

\* a model answered NotFound at its first attempt and the next candidate
\* was called
C7_Witness ==
    \E q \in 1..Len(calls) :
        /\ q < Len(calls)
        /\ calls[q].kind = "NotFound" /\ calls[q].attempt = 0
        /\ IsCall(calls[q + 1])

\* the candidates C8 names, for each model_name of ModelNames
Candidates ==
    CASE model_name = "gemini-2.0-flash" ->
             <<"gemini-2.0-flash", "gemini-2.5-flash", "gemini-2.0-flash-lite",
               "gemini-2.5-pro">>
      [] model_name = "gemini-2.5-flash" ->
             <<"gemini-2.5-flash", "gemini-2.0-flash", "gemini-2.0-flash-lite",
               "gemini-2.5-pro">>
      [] model_name = "tuned-model" ->
             <<"tuned-model", "gemini-2.5-flash", "gemini-2.0-flash",
               "gemini-2.0-flash-lite", "gemini-2.5-pro">>

CallsOnly == SelectSeq(calls, IsCall)

\* C8: the candidates are the preferred model, then the models of the chain
\* in their order without the preferred one; none is there twice; and the
\* calls go through them in that order, never back and skipping none.
C8_CandidateOrder ==
    /\ models_to_try(model_name) = Candidates
    /\ \A q, r \in 1..Len(Candidates) : Candidates[q] = Candidates[r] => q = r
    /\ CallsOnly # <<>> => CallsOnly[1].model = Candidates[1]
    /\ \A q \in 1..(Len(CallsOnly) - 1) :
           \E c \in 1..Len(Candidates) :
               /\ CallsOnly[q].model = Candidates[c]
               /\ \/ CallsOnly[q + 1].model = Candidates[c]
                  \/ c < Len(Candidates) /\ CallsOnly[q + 1].model = Candidates[c + 1]

\* the default model is preferred and every candidate was called
C8_Witness ==
    /\ model_name = "gemini-2.0-flash" /\ pc = "image_done"
    /\ \A c \in 1..Len(Candidates) :
           \E q \in 1..Len(calls) : IsCall(calls[q]) /\ calls[q].model = Candidates[c]

\* C9: an oracle call that succeeds ends analyze_image: no call and no sleep
\* follows it, and analyze_image returns what _parse_response made of the
\* response, with no error key.
C9_SuccessReturns ==
    \A q \in 1..Len(calls) :
        calls[q].kind = "Success" =>
            /\ q = Len(calls)
            /\ pc # "try"
            /\ ~out.raised
            /\ ~out.val.has_error

(***************************************************************************)
(* Properties of _parse_response (specification SpecParse)                 *)
(***************************************************************************)
\* C10: _parse_response is total: whatever the text, it returns a dict and
\* raises nothing.
C10_ParseTotal == ppc = "done" => ~pout.raised

(***************************************************************************)
(* Properties of _parse_response (specification SpecParse)                 *)
(***************************************************************************)
IsNumber(v) == v.t \in {"int", "float"}

\* the Defect invariants on one entry of "defects"
WellFormedDefect(d) ==
    /\ d.t = "dict"
    /\ DictGet(d.v, "type", JNone).t = "str"
    /\ DictGet(d.v, "type", JNone).v \in DEFECT_TYPES
    /\ DictGet(d.v, "severity", JNone).t = "str"
    /\ DictGet(d.v, "severity", JNone).v \in Severities
    /\ HasKey(d.v, "bbox")
    /\ DictGet(d.v, "bbox", JNone).t = "list"
    /\ Len(DictGet(d.v, "bbox", JNone).v) = 4
    /\ \A q \in 1..4 : IsNumber(DictGet(d.v, "bbox", JNone).v[q])

\* C11: every defect of the analysis _parse_response returns has a type of
\* the taxonomy, one of the four severities and a bbox of exactly 4 numbers.
C11_DefectInvariants ==
    (ppc = "done" /\ ~pout.raised) =>
        \A q \in 1..Len(Items(pout.val.defects)) :
            WellFormedDefect(Items(pout.val.defects)[q])

\* the text from the first "{" of s to the last "}" of s, "" when no "}"
\* follows the first "{"
FirstToLast(s) ==
    LET opens  == {q \in 1..Len(s) : Ch(s, q) = "{"}
        closes == {q \in 1..Len(s) : Ch(s, q) = "}"}
    IN  IF opens = {} \/ closes = {} THEN ""
        ELSE SubSeq(s, CHOOSE q \in opens : \A r \in opens : q <= r,
                       CHOOSE q \in closes : \A r \in closes : r <= q)

\* the result of lines 177-209 when the strict decoding of the whole text
\* has failed, span being the decoding of the text between the braces
AfterSpan(text, span) ==
    IF span.ok THEN Normalize(span.val)
    ELSE Returned(Analysis(JList(<<>>), JStr("unknown"),
             JStr("Could not parse AI response. Raw: " \o SubSeq(text, 1, Min(300, Len(text))))))

\* the result of lines 173-209, strict being the decoding of the whole text
AfterStrict(text, cleaned, strict) ==
    IF strict.ok THEN Normalize(strict.val)
    ELSE AfterSpan(text, IF FirstToLast(cleaned) = "" THEN ScanFail
                         ELSE JsonLoads(FirstToLast(cleaned)))

\* C12: the fence-stripped text is decoded first; only when that fails, the
\* span from the first "{" to the last "}"; when there is no span or it does
\* not decode either, the result is the degraded analysis whose summary holds
\* the first 300 characters of the text as it came.
C12_DecodeOrder ==
    ppc = "done" => pout = AfterStrict(ptext, Cleaned(ptext), JsonLoads(Cleaned(ptext)))

\* the whole text does not decode and the span inside it does
C12_Witness ==
    /\ ppc = "done"
    /\ ~JsonLoads(Cleaned(ptext)).ok
    /\ JsonLoads(FirstToLast(Cleaned(ptext))).ok
    /\ ~pout.raised /\ Len(pout.val.defects.v) = 2

\* neither decodes, and the text is longer than 300 characters and begins
\* with white space that the cleaned text has lost
C12_DegradedReached ==
    /\ ppc = "done"
    /\ Len(ptext) > 300 /\ Ch(ptext, 1) = " "
    /\ ~pout.raised
    /\ pout.val.summary.v = "Could not parse AI response. Raw: " \o SubSeq(ptext, 1, 300)

(***************************************************************************)
(* Properties of score_frame and score_property (specification SpecScore)  *)
(***************************************************************************)
\* the items of the "defects" of analysis q
DefectsOf(q) == Items(GetDefects(analyses[q]))

SeverityOf(d) == DictGet(d.v, "severity", JNone).v

TypeOf(d) == DictGet(d.v, "type", JNone).v

\* a float that round(x, 1) returned, in tenths
Tenths(x) == RoundTenths(x)

\* an analysis that stands for a failure: of every model (analyze_image), of
\* a frame (analyze_frames), or of the decoding (_parse_response)
IsDegradedAnalysis(a) ==
    /\ "defects" \in DOMAIN a
    /\ IsEmptyList(a.defects)
    /\ IsStr(a.room_condition, "unknown")
    /\ a.has_error \/ StartsWith(a.summary.v, "Could not parse AI response.")

AllDegraded == analyses # <<>> /\ \A q \in 1..Len(analyses) : IsDegradedAnalysis(analyses[q])

\* score_frame and score_property raise nothing on degraded analyses and
\* score them 0
DegradedScoredZero ==
    /\ \A q \in 1..Len(fs_shown) :
           IsDegradedAnalysis(analyses[q]) =>
               ~fs_shown[q].raised /\ Tenths(fs_shown[q].val.score) = 0
    /\ (score_pc = "done" /\ AllDegraded) =>
           ~prop_score.raised /\ Tenths(prop_score.val.overall_score) = 0

\* C13: a degraded analysis, and a property of degraded analyses only, is
\* scored without raising, with score 0 and the risk level "unknown".
C13_DegradedUnknown ==
    /\ DegradedScoredZero
    /\ \A q \in 1..Len(fs_shown) :
           IsDegradedAnalysis(analyses[q]) => fs_shown[q].val.risk_level = "unknown"
    /\ (score_pc = "done" /\ AllDegraded) => prop_score.val.risk_level = "unknown"

\* the multipliers of the severities, in hundredths
ClaimedMult == [critical |-> 100, high |-> 75, medium |-> 50, low |-> 25]

ClaimedWeight(type) ==
    IF type \in DOMAIN WeightHundredths THEN WeightHundredths[type]
    ELSE WeightHundredths["other"]

RECURSIVE ExactSum(_)
\* 400 times the sum of type_weight * severity_multiplier * 25 over items
ExactSum(items) ==
    IF items = <<>> THEN 0
    ELSE ClaimedWeight(TypeOf(Head(items))) * ClaimedMult[SeverityOf(Head(items))]
         + ExactSum(Tail(items))

\* 400 times that sum clamped to [0, 100]
ClampedSum(items) == Min(100 * 400, ExactSum(items))

\* analysis q was scored, and has defects, each of one of the four severities
ScoredDefects(q) ==
    /\ q <= Len(fs_shown)
    /\ GetDefects(analyses[q]).t = "list" /\ DefectsOf(q) # <<>>
    /\ \A r \in 1..Len(DefectsOf(q)) : SeverityOf(DefectsOf(q)[r]) \in DOMAIN ClaimedMult

\* C14 as stated: the score of a non-empty defect list is the clamped sum.
C14_ScoreIsSum ==
    \A q \in 1..Len(analyses) :
        ScoredDefects(q) =>
            /\ ~fs_shown[q].raised
            /\ 40 * Tenths(fs_shown[q].val.score) = ClampedSum(DefectsOf(q))

\* C14: the score of a non-empty defect list is the sum of
\* type_weight * severity_multiplier * 25 clamped to [0, 100] and rounded to
\* one decimal: it is a number of tenths in [0, 100] no further than 0.05
\* from the clamped sum.
C14_ScoreRounded ==
    \A q \in 1..Len(analyses) :
        ScoredDefects(q) =>
            /\ ~fs_shown[q].raised
            /\ fs_shown[q].val.score = FloatOfRatio(Tenths(fs_shown[q].val.score), 10)
            /\ Tenths(fs_shown[q].val.score) \in 0..1000
            /\ 40 * Tenths(fs_shown[q].val.score) - ClampedSum(DefectsOf(q)) \in -20..20

\* a list whose sum is above 100 was scored 100
C14_Witness ==
    \E q \in 1..Len(analyses) :
        /\ ScoredDefects(q)
        /\ ExactSum(DefectsOf(q)) > 100 * 400
        /\ Tenths(fs_shown[q].val.score) = 1000

\* the band the claims give: first match wins
ClaimedBand(ge70, ge45, ge20, manyCritical, someCritical) ==
    IF ge70 \/ manyCritical THEN "critical"
    ELSE IF ge45 \/ someCritical THEN "high"
    ELSE IF ge20 THEN "medium"
    ELSE "low"

CriticalIn(items) ==
    Cardinality({r \in 1..Len(items) : SeverityOf(items[r]) = "critical"})

\* C15: the risk level of a non-empty defect list is critical if the score
\* is at least 70 or two defects are critical, else high if the score is at
\* least 45 or one defect is critical, else medium if the score is at least
\* 20, else low.
C15_FrameBanding ==
    \A q \in 1..Len(analyses) :
        ScoredDefects(q) =>
            fs_shown[q].val.risk_level =
                ClaimedBand(ClampedSum(DefectsOf(q)) >= 70 * 400,
                            ClampedSum(DefectsOf(q)) >= 45 * 400,
                            ClampedSum(DefectsOf(q)) >= 20 * 400,
                            CriticalIn(DefectsOf(q)) >= 2,
                            CriticalIn(DefectsOf(q)) >= 1)

\* two critical defects band a frame critical, one at least high
CriticalCountOverride ==
    \A q \in 1..Len(analyses) :
        ScoredDefects(q) =>
            /\ CriticalIn(DefectsOf(q)) >= 2 => fs_shown[q].val.risk_level = "critical"
            /\ CriticalIn(DefectsOf(q)) = 1 => fs_shown[q].val.risk_level \in {"critical", "high"}

\* score_property has returned for an input that is not empty
PropertyDone == score_pc = "done" /\ analyses # <<>> /\ ~prop_score.raised

\* the score score_frame returned for analysis q, in tenths
FrameTenths(q) == Tenths(fs_shown[q].val.score)

RECURSIVE SumTenths(_)
\* the sum of the scores of the first n analyses, in tenths
SumTenths(n) == IF n = 0 THEN 0 ELSE FrameTenths(n) + SumTenths(n - 1)

MaxTenths ==
    CHOOSE x \in {FrameTenths(q) : q \in 1..Len(analyses)} :
        \A q \in 1..Len(analyses) : FrameTenths(q) <= x

\* clamp(0.4 * mean + 0.6 * max, 0, 100) of the frame scores, times 100 times
\* the number of frames
ExactOverall ==
    Min(100 * 100 * Len(analyses),
        4 * SumTenths(Len(analyses)) + 6 * Len(analyses) * MaxTenths)

RECURSIVE CriticalUpTo(_)
\* the critical defects of the first n analyses
CriticalUpTo(n) == IF n = 0 THEN 0 ELSE CriticalIn(DefectsOf(n)) + CriticalUpTo(n - 1)

\* the input is one critical electrical_hazard defect, then no defects
IsClaimedExample ==
    /\ Len(analyses) = 2
    /\ Len(DefectsOf(1)) = 1 /\ TypeOf(DefectsOf(1)[1]) = "electrical_hazard"
    /\ SeverityOf(DefectsOf(1)[1]) = "critical"
    /\ GetDefects(analyses[2]).t = "list" /\ DefectsOf(2) = <<>> /\ ~IsDegradedAnalysis(analyses[2])

\* the example of C16 comes out as stated
ExampleIsHigh ==
    (PropertyDone /\ IsClaimedExample) =>
        /\ prop_score.val.critical_defects = 1
        /\ Tenths(prop_score.val.overall_score) = 200
        /\ prop_score.val.risk_level = "high"

\* C16: the risk level of a property is critical if overall is at least 70 or
\* three defects are critical, else high if overall is at least 45 or one
\* defect is critical, else medium if overall is at least 20, else low; one
\* critical electrical_hazard defect and a frame with no defects give
\* critical_defects 1, overall_score 20.0 and risk_level "high".
C16_PropertyBanding ==
    /\ ExampleIsHigh
    /\ PropertyDone =>
           prop_score.val.risk_level =
               ClaimedBand(ExactOverall >= 70 * 100 * Len(analyses),
                           ExactOverall >= 45 * 100 * Len(analyses),
                           ExactOverall >= 20 * 100 * Len(analyses),
                           CriticalUpTo(Len(analyses)) >= 3,
                           CriticalUpTo(Len(analyses)) >= 1)

\* C17 as stated: overall_score is clamp(0.4 * mean + 0.6 * max, 0, 100) of
\* the scores score_frame returned.
C17_OverallIsBlend ==
    PropertyDone =>
        10 * Len(analyses) * Tenths(prop_score.val.overall_score) = ExactOverall

\* C17: overall_score is clamp(0.4 * mean + 0.6 * max, 0, 100) of the scores
\* score_frame returned, rounded to one decimal: a number of tenths in
\* [0, 100] no further than 0.05 from it.
C17_OverallRounded ==
    PropertyDone =>
        /\ prop_score.val.overall_score
               = FloatOfRatio(Tenths(prop_score.val.overall_score), 10)
        /\ Tenths(prop_score.val.overall_score) \in 0..1000
        /\ 10 * Len(analyses) * Tenths(prop_score.val.overall_score) - ExactOverall
               \in (0 - 5 * Len(analyses))..(5 * Len(analyses))

\* three frames of different scores, the mean far from the worst
C17_Witness ==
    /\ PropertyDone /\ Len(analyses) = 3
    /\ FrameTenths(1) < FrameTenths(2) /\ FrameTenths(3) = 0
    /\ Tenths(prop_score.val.overall_score) > FrameTenths(1)
    /\ Tenths(prop_score.val.overall_score) < FrameTenths(2)

\* the defects of frame q, each with the index of the frame, counted from 0
TaggedOf(q) ==
    [r \in 1..Len(DefectsOf(q)) |->
        JDict(DefectsOf(q)[r].v
              \o <<[k |-> "frame_index", v |-> JInt(SubSeq("0123456789", q, q))]>>)]

RECURSIVE TaggedUpTo(_)
\* the defects of the first n frames, in input order
TaggedUpTo(n) == IF n = 0 THEN <<>> ELSE TaggedUpTo(n - 1) \o TaggedOf(n)

IsCriticalDefect(d) == SeverityOf(d) = "critical"

IsHighDefect(d) == SeverityOf(d) = "high"

IsMediumDefect(d) == SeverityOf(d) = "medium"

IsLowDefect(d) == SeverityOf(d) = "low"

\* the defects of all frames: the critical ones in input order, then the high
\* ones, the medium ones, the low ones
ByUrgency(all) ==
    SelectSeq(all, IsCriticalDefect) \o SelectSeq(all, IsHighDefect)
    \o SelectSeq(all, IsMediumDefect) \o SelectSeq(all, IsLowDefect)

FourSeverities ==
    \A q \in 1..Len(analyses) : \A r \in 1..Len(DefectsOf(q)) :
        SeverityOf(DefectsOf(q)[r]) \in Severities

\* C18: priority_actions is the first 5 of the defects of all frames, each
\* tagged with the index of its frame, ordered critical, high, medium, low,
\* defects of equal severity in input order.
C18_PriorityActions ==
    (PropertyDone /\ FourSeverities) =>
        prop_score.val.priority_actions
            = SubSeq(ByUrgency(TaggedUpTo(Len(analyses))), 1,
                     Min(5, Len(ByUrgency(TaggedUpTo(Len(analyses))))))

\* more than 5 defects, in an order that is not the urgency order, two of
\* the 5 kept being equally severe defects of different frames
C18_Witness ==
    /\ PropertyDone /\ FourSeverities
    /\ prop_score.val.total_defects > 5
    /\ Len(prop_score.val.priority_actions) = 5
    /\ TaggedUpTo(Len(analyses)) # ByUrgency(TaggedUpTo(Len(analyses)))
    /\ \E a, b \in 1..5 :
           /\ a < b
           /\ SeverityOf(prop_score.val.priority_actions[a])
                  = SeverityOf(prop_score.val.priority_actions[b])
           /\ DictGet(prop_score.val.priority_actions[a].v, "frame_index", JNone).v = "0"
           /\ DictGet(prop_score.val.priority_actions[b].v, "frame_index", JNone).v = "2"

\* C19: frame_scores is as long as the input, and frame_scores[i] is what
\* score_frame returns for input[i].
C19_FrameScoresAligned ==
    PropertyDone =>
        /\ Len(prop_score.val.frame_scores) = Len(analyses)
        /\ \A q \in 1..Len(analyses) : prop_score.val.frame_scores[q] = fs_shown[q].val

\* three analyses that score_frame scores differently
C19_Witness ==
    /\ PropertyDone /\ Len(analyses) = 3
    /\ FrameTenths(1) # FrameTenths(2) /\ FrameTenths(2) # FrameTenths(3)
    /\ FrameTenths(1) # FrameTenths(3)
    /\ prop_score.val.frame_scores[3] = fs_shown[3].val

PropertyFields ==
    {"overall_score", "risk_level", "total_defects", "critical_defects",
     "high_defects", "frame_scores", "priority_actions", "all_defects"}

\* the result for an input that is not empty has the fields of a PropertyScore
NonEmptyFields == PropertyDone => DOMAIN prop_score.val = PropertyFields

\* C20: for an empty input score_property returns overall_score 0, risk_level
\* "safe", total_defects 0, critical_defects 0, high_defects 0 and empty
\* frame_scores and priority_actions: the fields of the result for an input
\* that is not empty.
C20_EmptyFullyPopulated ==
    (score_pc = "done" /\ analyses = <<>>) =>
        /\ ~prop_score.raised
        /\ Tenths(prop_score.val.overall_score) = 0
        /\ prop_score.val.risk_level = "safe"
        /\ prop_score.val.total_defects = 0
        /\ prop_score.val.critical_defects = 0
        /\ prop_score.val.frame_scores = <<>>
        /\ prop_score.val.priority_actions = <<>>
        /\ DOMAIN prop_score.val = PropertyFields
        /\ prop_score.val.high_defects = 0

\* all of C20 but high_defects
EmptyButHighDefects ==
    (score_pc = "done" /\ analyses = <<>>) =>
        /\ ~prop_score.raised
        /\ Tenths(prop_score.val.overall_score) = 0
        /\ prop_score.val.risk_level = "safe"
        /\ prop_score.val.total_defects = 0
        /\ prop_score.val.critical_defects = 0
        /\ prop_score.val.frame_scores = <<>>
        /\ prop_score.val.priority_actions = <<>>
        /\ DOMAIN prop_score.val = PropertyFields \ {"high_defects"}

\* what the claim gives a frame without defects
IsSafeFrame(fs) ==
    /\ ~fs.raised
    /\ Tenths(fs.val.score) = 0 /\ fs.val.score.m = <<>>
    /\ fs.val.risk_level = "safe"
    /\ fs.val.critical_count = 0 /\ fs.val.high_count = 0
    /\ Len(fs.val.defect_counts) = 0

\* the "defects" of the analysis are missing, or an empty list
NoDefects(a) == "defects" \notin DOMAIN a \/ IsEmptyList(a.defects)

\* C21: score_frame on an analysis whose defect list is empty or absent
\* returns score 0, risk_level "safe", critical_count 0, high_count 0 and an
\* empty histogram of the defect types
C21_EmptyIsSafe ==
    \A q \in 1..Len(fs_shown) : NoDefects(analyses[q]) => IsSafeFrame(fs_shown[q])

\* score_frame has returned for an analysis without the key "defects", and in
\* another run for one whose "defects" is the empty list
C21_Witness == Len(fs_shown) = 1 /\ "defects" \notin DOMAIN analyses[1]

C21_WitnessEmptyList ==
    /\ Len(fs_shown) = 2 /\ "defects" \in DOMAIN analyses[2]
    /\ IsEmptyList(analyses[2].defects) /\ ~analyses[2].has_error

\* score_property was called twice on the same analyses
CalledAgain == score_pc = "again"

Returns == x_pc = "done" /\ ~x_out.raised

\* the frame rate of the video in hundredths, 2500 for a rate that is not known
RateHundredths ==
    CHOOSE h \in (NativeRates \ {0}) \cup {2500} :
        FpsOf(x_call.video) = FloatOfRatio(h, 100)

\* interval_sec in halves of a second
IntervalHalves == CHOOSE k \in Intervals : x_call.interval_sec = FloatOfRatio(k, 2)

\* n, or 1 for an n below 1
AtLeastOne(n) == IF n < 1 THEN 1 ELSE n

\* C23: the sampling period is round(native_fps * interval_sec), floored to
\* at least 1, for every frame rate and interval, the products with a
\* fraction of 0.5 or more among them
C23_PeriodRounded ==
    Returns =>
        x_out.step
          = AtLeastOne(RoundOfFloat(FloatMul(FpsOf(x_call.video), x_call.interval_sec)))

\* 29.97 frames a second sampled every 0.5 seconds: the period is 14, the
\* product being 14.985
PeriodOfExample ==
    (Returns /\ RateHundredths = 2997 /\ IntervalHalves = 1) => x_out.step = 14

\* the period is the product with its fraction cut off, and 1 at least:
\* native_fps * interval_sec is RateHundredths * IntervalHalves / 200
PeriodTruncated ==
    Returns => x_out.step = AtLeastOne((RateHundredths * IntervalHalves) \div 200)

\* the samples a stream of N readable frames gives at the period of the call
ClaimedCount ==
    Min(x_call.max_frames, (x_call.video.n_frames + x_out.step - 1) \div x_out.step)

\* a rate a float holds exactly
ExactRate == RateHundredths % 25 = 0

\* sample k (from 0) is the frame read at k * step, with frame_index k and
\* timestamp k * step / fps
ClaimedSample(k) ==
    /\ x_out.frames[k + 1].image = k * x_out.step
    /\ x_out.frames[k + 1].frame_index = k
    /\ x_out.frames[k + 1].timestamp_sec
         = FloatDiv(FloatOfInt(k * x_out.step), FpsOf(x_call.video))
    /\ ExactRate =>
         x_out.frames[k + 1].timestamp_sec
           = FloatOfRatio(k * x_out.step * 4, RateHundredths \div 25)

\* the video of the claim: 30 frames a second for 10 seconds, sampled every
\* 2 seconds, 30 samples at most
IsClaimedVideo ==
    /\ x_call.video.opened /\ x_call.video.native_fps = FloatOfInt(30)
    /\ x_call.video.n_frames = 30 * 10
    /\ x_call.interval_sec = FloatOfInt(2) /\ x_call.max_frames = 30

\* C24: on a stream of N readable frames with period step, _extract_frames
\* gives min(max_frames, ceil(N / step)) samples; sample k (from 0) is the
\* frame read at k * step, has frame_index k and timestamp k * step / fps, fps
\* being the native rate, or 25.0 when that is not known; the video of the
\* claim gives 5 samples at 0.0, 2.0, 4.0, 6.0 and 8.0
C24_Samples ==
    Returns =>
        /\ Len(x_out.frames) = ClaimedCount
        /\ \A k \in 0..(Len(x_out.frames) - 1) : ClaimedSample(k)
        /\ IsClaimedVideo =>
             /\ Len(x_out.frames) = 5
             /\ \A k \in 0..4 : x_out.frames[k + 1].timestamp_sec = FloatOfInt(2 * k)

\* the video of the claim has been sampled
C24_Witness == Returns /\ IsClaimedVideo /\ Len(x_out.frames) = 5

\* samples were made at 25.0 frames a second, the rate not being known, and
\* max_frames stopped the reading before the stream ended
C24_WitnessFallback ==
    /\ Returns /\ x_call.video.native_fps = FloatZero
    /\ Len(x_out.frames) = 3 /\ x_out.reads < x_call.video.n_frames

TemporaryFileLife ==
    /\ x_pc = "call" => tmp_file = "none"
    /\ x_pc \in {"try", "loop"} => tmp_file = "written"
    /\ x_pc = "done" => tmp_file \in {"removed", "left"}

(***************************************************************************)
(* Properties of the annotator (specification SpecAnnotate)                *)
(***************************************************************************)
\* the point (x, y) is a pixel of the image
InsideImage(x, y) ==
    /\ 0 <= x /\ x <= a_call.width - 1
    /\ 0 <= y /\ y <= a_call.height - 1

\* C26: every rectangle the annotator draws has its corners inside the
\* image, 0 <= x <= width - 1 and 0 <= y <= height - 1, the boxes the local
\* model gives in pixels among them
C26_Clamped ==
    a_pc = "done" =>
        \A q \in 1..Len(drawn) :
            drawn[q].op = "rectangle" =>
                InsideImage(drawn[q].x1, drawn[q].y1) /\ InsideImage(drawn[q].x2, drawn[q].y2)

\* the box of a defect is drawn with the corners of its bbox, cut to
\* integers and not otherwise changed; the top of the label alone is kept
\* from going above the image
DrawnAsGiven ==
    a_pc = "done" =>
        /\ Len(drawn) = 3 * Len(a_call.defects)
        /\ \A q \in 1..Len(a_call.defects) :
               /\ drawn[3 * q - 2].x1 = PixelOf(a_call.defects[q].bbox[1])
               /\ drawn[3 * q - 2].y1 = PixelOf(a_call.defects[q].bbox[2])
               /\ drawn[3 * q - 2].x2 = PixelOf(a_call.defects[q].bbox[3])
               /\ drawn[3 * q - 2].y2 = PixelOf(a_call.defects[q].bbox[4])
               /\ drawn[3 * q - 1].y1 >= 0

\* the bbox [0, 0, 1000, 1000] on the 200 x 100 image is drawn from (0, 0)
\* to (1000, 1000)
UnclampedExample ==
    /\ a_pc = "done" /\ a_call.width = 200 /\ a_call.height = 100
    /\ Len(drawn) = 3 /\ a_call.defects[1].bbox = <<0, 0, 10000, 10000>>
    /\ drawn[1].x1 = 0 /\ drawn[1].y1 = 0 /\ drawn[1].x2 = 1000 /\ drawn[1].y2 = 1000

(***************************************************************************)
(* More properties of analyze_image (specification SpecLive)               *)
(***************************************************************************)
\* the oracle calls made for the candidate name in this analyze_image call
CallsOf(name) ==
    Cardinality({q \in 1..Len(calls) : IsCall(calls[q]) /\ calls[q].model = name})

CandidateSet == {models_to_try(model_name)[q] : q \in 1..Len(models_to_try(model_name))}

\* analyze_image is back
Ended == pc = "image_done"

\* the three ways analyze_image ends: with what _parse_response made of an
\* answer, with the failure of kind Other raised, and with the degraded
\* result of lines 128-135
EndsNormalized == ~out.raised /\ LastCall.kind = "Success" /\ ~out.val.has_error

EndsRaised == out.raised /\ KindOf[out.exc] = "Other"

EndsExhausted ==
    /\ ~out.raised /\ LastCall.kind \in {"NotFound", "RateLimited"}
    /\ out.val = Exhausted(lastFailure)

\* C27: analyze_image always terminates, whatever the oracle answers: it
\* makes at most MAX_RETRIES = 2 oracle calls for a candidate, so at most
\* 2 * (number of candidates) <= 10 in all, and it ends in exactly one of
\* three ways: a normalized result, a raised Other failure, or the degraded
\* result of exhaustion, this one only after every candidate was called
C27_Terminates ==
    /\ [](MAX_RETRIES = 2 /\ \A name \in CandidateSet : CallsOf(name) <= MAX_RETRIES)
    /\ [](/\ Len(SelectSeq(calls, IsCall)) <= 2 * Len(models_to_try(model_name))
          /\ Len(SelectSeq(calls, IsCall)) <= 10)
    /\ [](Ended =>
            /\ EndsNormalized \/ EndsRaised \/ EndsExhausted
            /\ ~(EndsNormalized /\ EndsRaised) /\ ~(EndsNormalized /\ EndsExhausted)
            /\ ~(EndsRaised /\ EndsExhausted)
            /\ EndsExhausted => \A name \in CandidateSet : CallsOf(name) >= 1)
    /\ (pc = "try") ~> Ended

\* analyze_image is back with the degraded result after 10 oracle calls, 2
\* for each of 5 candidates
C27_Witness ==
    /\ Ended /\ EndsExhausted
    /\ Len(SelectSeq(calls, IsCall)) = 10
    /\ \A name \in CandidateSet : CallsOf(name) = 2

(***************************************************************************)
(* Properties of the classification of failures (specification             *)
(* SpecClassify)                                                           *)
(***************************************************************************)
\* the words the failure of the first call was made of
WordsOfFailure ==
    CHOOSE w \in (NotFoundMarks \cup RateLimitMarks \cup NoMarks)
                 \X (NotFoundMarks \cup RateLimitMarks \cup NoMarks) :
        FailureOf(w[1], w[2]) = lastFailure

\* the kind the claim gives the failure, from the words it was made of
ClaimedKind ==
    IF WordsOfFailure[1] \in NotFoundMarks \/ WordsOfFailure[2] \in NotFoundMarks
    THEN "NotFound"
    ELSE IF WordsOfFailure[1] \in RateLimitMarks \/ WordsOfFailure[2] \in RateLimitMarks
    THEN "RateLimited"
    ELSE "Other"

\* the first call has failed and the except clause is done
FirstFailed == calls # <<>> /\ lastFailure # ""

\* C28: a failure is classified by the marks its text holds, in small or
\* capital letters and anywhere in the text: NotFound when it holds "404" or
\* "not found", a mark of a rate limit or not; otherwise RateLimited when it
\* holds "429", "quota" or "resource"; otherwise Other.  It is of one kind
\* only, and handled as that kind: the next candidate at once, a sleep and a
\* second attempt, or the failure raised
C28_Classification ==
    FirstFailed =>
        /\ calls[1].kind = ClaimedKind
        /\ calls[1].kind \in {"NotFound", "RateLimited", "Other"}
        /\ ClaimedKind = "NotFound" =>
             /\ Len(calls) = 1 \/ (IsCall(calls[2]) /\ calls[2].model # calls[1].model)
             /\ Len(calls) = 1 => (m_idx = 2 /\ attempt = 0 /\ pc = "try")
        /\ ClaimedKind = "RateLimited" =>
             /\ Len(calls) >= 2 /\ calls[2].ev = "sleep"
             /\ Len(calls) = 2 => (m_idx = 1 /\ attempt = 1 /\ pc = "try")
        /\ ClaimedKind = "Other" =>
             Len(calls) = 1 /\ Ended /\ out.raised /\ out.exc = lastFailure

\* a failure holding "NOT FOUND" and "RESOURCE_EXHAUSTED" was taken for
\* NotFound: the next candidate is tried with no sleep
C28_Witness ==
    /\ FirstFailed /\ Len(calls) = 1
    /\ lastFailure = FailureOf("RESOURCE_EXHAUSTED", "NOT FOUND")
    /\ calls[1].kind = "NotFound" /\ m_idx = 2

(***************************************************************************)
(* Properties of the blend of score_property (specification SpecScore)     *)
(***************************************************************************)
\* line 98: the scores of the frames score_property returned
ReturnedScores ==
    [q \in 1..Len(prop_score.val.frame_scores) |-> prop_score.val.frame_scores[q].score]

\* lines 100-101: avg and worst as the code computes them
AvgOfReturned == FloatDivInt(FloatSum(ReturnedScores, FloatZero), Len(ReturnedScores))

WorstOfReturned == FloatMax(Tail(ReturnedScores), Head(ReturnedScores))

\* the overall score returned, in tenths
OverallTenths == Tenths(prop_score.val.overall_score)

\* the value of line 102 is not less than 0.6 * worst
AtLeastSixTenthsOfWorst ==
    ~FloatLess(Blend(ReturnedScores), FloatMul(FloatOfRatio(6, 10), WorstOfReturned))

PropertyReturned == score_pc \in {"done", "again"} /\ ~prop_score.raised

\* no analysis of the property has defects
AllClean == analyses # <<>> /\ \A q \in 1..Len(analyses) : NoDefects(analyses[q])

\* C30: score_property returns the risk level "safe" for the empty sequence
\* and for no other; the level of a sequence that is not empty is one of
\* low, medium, high and critical, and a property whose frames all have no
\* defects gets overall_score 0 and the level "low", while score_frame
\* bands each of its frames "safe"
C30_SafeOnlyWhenEmpty ==
    PropertyReturned =>
        /\ analyses = <<>> => prop_score.val.risk_level = "safe"
        /\ prop_score.val.risk_level = "safe" => analyses = <<>>
        /\ analyses # <<>> =>
             prop_score.val.risk_level \in {"low", "medium", "high", "critical"}
        /\ AllClean =>
             /\ prop_score.val.overall_score = FloatZero
             /\ prop_score.val.risk_level = "low"
             /\ prop_score.val.total_defects = 0
             /\ \A q \in 1..Len(analyses) :
                    /\ fs_shown[q].val.risk_level = "safe"
                    /\ prop_score.val.frame_scores[q].risk_level = "safe"

\* a property of two rooms, nothing found in either: "low", the frames "safe"
C30_Witness ==
    /\ PropertyReturned /\ Len(analyses) = 2 /\ AllClean
    /\ ~analyses[1].has_error /\ ~analyses[2].has_error
    /\ prop_score.val.risk_level = "low"
    /\ fs_shown[1].val.risk_level = "safe" /\ fs_shown[2].val.risk_level = "safe"

\* score_property has returned "safe" for the empty sequence
C30_WitnessEmpty ==
    PropertyReturned /\ analyses = <<>> /\ prop_score.val.risk_level = "safe"

=============================================================================
